---- MODULE Spec2Model ----
(***************************************************************************)
(* Model of src-tauri/src/main.rs of filesMind: the launcher that spawns   *)
(* the backend sidecar, probes its readiness, and serves the perf-session  *)
(* (wake-lock) commands to the UI.                                         *)
(*                                                                         *)
(* Two state groups exist in the program, each behind its own Mutex:       *)
(*   AppRuntime.child          (the backend process handle)                *)
(*   MacPerfState.inner        (next_token, active_tokens,                 *)
(*                              caffeinate_child)                          *)
(* Every command holds the perf Mutex for its whole body, so a command is  *)
(* one atomic action here; concurrency is the interleaving of actions.     *)
(* SpecLocks runs the same handlers step by step, one thread each, to show *)
(* where each Mutex is taken and where its guard is dropped.               *)
(***************************************************************************)
EXTENDS Integers, Sequences, FiniteSets, TLC

VARIABLES
    macos,             \* build target: cfg(target_os = "macos")
    next_token,        \* MacPerfInner.next_token
    active_tokens,     \* MacPerfInner.active_tokens
    caffeinate_child,  \* MacPerfInner.caffeinate_child.is_some()
    perf_poisoned,     \* MacPerfState.inner is a poisoned Mutex
    caffeinate_procs,  \* caffeinate processes spawned and not yet killed
    hist,              \* the latest uninterrupted run of perf_begin/perf_end calls
    app_runtime,       \* "none" before setup, then "spawned" or "fallback"
    startup_failure,   \* the call of spawn_backend that was made to fail, or "none"
    backend_base_url,  \* AppRuntime.backend_base_url
    auth_token,        \* AppRuntime.auth_token
    child,             \* AppRuntime.child holds Some(Child)
    child_poisoned,    \* AppRuntime.child is a poisoned Mutex
    backend_procs,     \* backend processes spawned and not yet killed
    events,            \* what app.emit has sent to the UI, in order
    config_rets,       \* every payload get_runtime_config has returned
    probe_pc,          \* readiness task: "idle", "start", "request", "sleep", "done"
    delay,             \* wait_for_backend_ready: delay (ms)
    elapsed,           \* wait_for_backend_ready: start.elapsed() (ms)
    requests,          \* GET /ready requests sent so far
    sleeps,            \* the durations passed to tokio::time::sleep, in order
    got_success,       \* some /ready response had a 2xx status
    pure_args,         \* the arguments a pure function is called with
    pure_ret,          \* <<>> before that call, then <<its return value>>
    runtime_state,     \* <<>>, then <<the payload macos_runtime_state returned last>>
    lock_owner,        \* for each Mutex, the thread that holds its guard, or "free"
    threads            \* for each thread, where it is in the handler it runs

perfVars == <<next_token, active_tokens, caffeinate_child, perf_poisoned,
              caffeinate_procs, hist>>

probeVars == <<probe_pc, delay, elapsed, requests, sleeps, got_success>>

bootVars == <<app_runtime, startup_failure, backend_base_url, auth_token, child,
              child_poisoned, backend_procs, events, config_rets, probeVars>>

pureVars == <<pure_args, pure_ret>>

lockVars == <<lock_owner, threads>>

\* What only some of the specifications use: the call of a single function,
\* the snapshot query, and the handlers taken step by step.
auxVars == <<pureVars, runtime_state, lockVars>>

vars == <<macos, perfVars, bootVars, auxVars>>

----------------------------------------------------------------------------
(* Bounds of the model. *)

\* Stands for u64::MAX, where next_token.saturating_add(1) stops growing.
MaxToken == 3

\* Option<String> values passed as `reason`: None is <<>>, Some(s) is <<s>>.
Reasons == {<<>>, <<"ocr">>}

\* Tokens a caller may pass to perf_end: 0 is never issued.
Tokens == 0..MaxToken

\* How many perf commands in a row the specification of the whole lifetime
\* follows.
MaxLifeCalls == 2

----------------------------------------------------------------------------
(* MacPerfInner and the helpers that act on it. *)

\* The perf state as one value, with the OS-side count of wake-lock processes.
Inner ==
    [next_token       |-> next_token,
     active_tokens    |-> active_tokens,
     caffeinate_child |-> caffeinate_child,
     caffeinate_procs |-> caffeinate_procs]

\* Faulty variant: the counter wraps around (wrapping_add) instead of saturating.
SaturatingAdd_wrapping(a, b) == (a + b) % (MaxToken + 1)

\* u64::saturating_add
SaturatingAdd(a, b) == IF a + b > MaxToken THEN MaxToken ELSE a + b

\* Faulty variant: spawns without looking whether a handle is already held; the old
\* Child is dropped, which does not kill its process.
ensure_caffeinate_running_respawn(inner, spawnOk) ==
    IF macos
    THEN IF spawnOk
         THEN [ok |-> TRUE, spawn |-> "ok",
               inner |-> [inner EXCEPT !.caffeinate_child = TRUE,
                                       !.caffeinate_procs = @ + 1]]
         ELSE [ok |-> FALSE, spawn |-> "failed", inner |-> inner]
    ELSE [ok |-> TRUE, spawn |-> "none", inner |-> inner]

\* ensure_caffeinate_running: on macOS spawn `caffeinate -dimsu` unless a handle
\* is held; spawnOk is whether Command::spawn succeeds.  Elsewhere a no-op.
\* `spawn` tells what became of Command::spawn: "none" when it was not called.
ensure_caffeinate_running(inner, spawnOk) ==
    IF macos /\ ~inner.caffeinate_child
    THEN IF spawnOk
         THEN [ok |-> TRUE, spawn |-> "ok",
               inner |-> [inner EXCEPT !.caffeinate_child = TRUE,
                                       !.caffeinate_procs = @ + 1]]
         ELSE [ok |-> FALSE, spawn |-> "failed", inner |-> inner]
    ELSE [ok |-> TRUE, spawn |-> "none", inner |-> inner]

\* Faulty variant: kills through as_mut() and leaves the handle in place.
stop_caffeinate_keep_handle(inner) ==
    IF inner.caffeinate_child /\ inner.caffeinate_procs > 0
    THEN [inner EXCEPT !.caffeinate_procs = @ - 1]
    ELSE inner

\* stop_caffeinate: take() the handle and kill the process it names.
stop_caffeinate(inner) ==
    IF inner.caffeinate_child
    THEN [inner EXCEPT !.caffeinate_child = FALSE,
                       !.caffeinate_procs = @ - 1]
    ELSE inner

\* PerfSessionPayload
Payload(token, active, count, caff, message) ==
    [token |-> token, active |-> active, active_tokens |-> count,
     caffeinate_active |-> caff, message |-> message]

\* Faulty variant: the failure arm returns without retracting the token.
perf_begin_locked_no_retract(inner, reason, spawnOk) ==
    LET reason_text == IF reason = <<>> THEN "unspecified" ELSE reason[1]
        token    == inner.next_token
        bumped   == [inner EXCEPT !.next_token = SaturatingAdd(@, 1),
                                  !.active_tokens = @ \cup {token}]
        ensured  == ensure_caffeinate_running(bumped, spawnOk)
    IN  IF ~ensured.ok
        THEN [inner |-> bumped, spawn |-> ensured.spawn,
              ret   |-> Payload(0, FALSE, Cardinality(bumped.active_tokens),
                                bumped.caffeinate_child,
                                "perf begin failed: failed to spawn caffeinate")]
        ELSE [inner |-> ensured.inner, spawn |-> ensured.spawn,
              ret   |-> Payload(token, TRUE,
                                Cardinality(ensured.inner.active_tokens),
                                ensured.inner.caffeinate_child,
                                "perf session started (" \o reason_text \o ")")]

\* perf_begin with the lock acquired: [inner, spawn, ret].
perf_begin_locked(inner, reason, spawnOk) ==
    LET reason_text == IF reason = <<>> THEN "unspecified" ELSE reason[1]
        token    == inner.next_token
        bumped   == [inner EXCEPT !.next_token = SaturatingAdd(@, 1),
                                  !.active_tokens = @ \cup {token}]
        ensured  == ensure_caffeinate_running(bumped, spawnOk)
        failed   == [bumped EXCEPT !.active_tokens = @ \ {token}]
    IN  IF ~ensured.ok
        THEN [inner |-> failed, spawn |-> ensured.spawn,
              ret   |-> Payload(0, FALSE, Cardinality(failed.active_tokens),
                                failed.caffeinate_child,
                                "perf begin failed: failed to spawn caffeinate")]
        ELSE [inner |-> ensured.inner, spawn |-> ensured.spawn,
              ret   |-> Payload(token, TRUE,
                                Cardinality(ensured.inner.active_tokens),
                                ensured.inner.caffeinate_child,
                                "perf session started (" \o reason_text \o ")")]

\* Faulty variant: stops caffeinate whenever a token was removed, other sessions or not.
perf_end_locked_stop_on_remove(inner, token) ==
    LET removed == token \in inner.active_tokens
        less    == [inner EXCEPT !.active_tokens = @ \ {token}]
        after   == IF removed THEN stop_caffeinate(less) ELSE less
    IN  [inner |-> after,
         ret   |-> Payload(token, after.active_tokens # {},
                           Cardinality(after.active_tokens),
                           after.caffeinate_child,
                           IF removed THEN "perf session ended"
                                      ELSE "perf session token not found")]

\* Faulty variant: removes the token and never stops caffeinate.
perf_end_locked_no_stop(inner, token) ==
    LET removed == token \in inner.active_tokens
        after   == [inner EXCEPT !.active_tokens = @ \ {token}]
    IN  [inner |-> after,
         ret   |-> Payload(token, after.active_tokens # {},
                           Cardinality(after.active_tokens),
                           after.caffeinate_child,
                           IF removed THEN "perf session ended"
                                      ELSE "perf session token not found")]

\* Faulty variant: stops caffeinate when the token is unknown, not when the set is empty.
perf_end_locked_stop_on_miss(inner, token) ==
    LET removed == token \in inner.active_tokens
        less    == [inner EXCEPT !.active_tokens = @ \ {token}]
        after   == IF ~removed \/ less.active_tokens = {}
                   THEN stop_caffeinate(less) ELSE less
    IN  [inner |-> after,
         ret   |-> Payload(token, after.active_tokens # {},
                           Cardinality(after.active_tokens),
                           after.caffeinate_child,
                           IF removed THEN "perf session ended"
                                      ELSE "perf session token not found")]

\* perf_end with the lock acquired: [inner, ret].
perf_end_locked(inner, token) ==
    LET removed == token \in inner.active_tokens
        less    == [inner EXCEPT !.active_tokens = @ \ {token}]
        after   == IF less.active_tokens = {} THEN stop_caffeinate(less) ELSE less
    IN  [inner |-> after,
         ret   |-> Payload(token, after.active_tokens # {},
                           Cardinality(after.active_tokens),
                           after.caffeinate_child,
                           IF removed THEN "perf session ended"
                                      ELSE "perf session token not found")]

\* Faulty variant: the Err(_) arm reads the counts through the poisoned guard.
PoisonedPayload_counts(token) ==
    Payload(token, active_tokens # {}, Cardinality(active_tokens),
            caffeinate_child, "perf lock poisoned")

\* The Err(_) arm of state.inner.lock() in perf_begin and perf_end.
PoisonedPayload(token) == Payload(token, FALSE, 0, FALSE, "perf lock poisoned")

----------------------------------------------------------------------------
(* The call history the claims about call sequences are stated over. *)

\* What a caller could observe of the perf state just before a call.
Pre ==
    [next_token       |-> next_token,
     active_tokens    |-> active_tokens,
     caffeinate_child |-> caffeinate_child,
     poisoned         |-> perf_poisoned]

\* One call: the command, the token passed to perf_end (0 for perf_begin), what
\* became of Command::spawn in it, the state before it and the payload returned.
Call(op, arg, spawn, ret) ==
    [op |-> op, arg |-> arg, spawn |-> spawn, pre |-> Pre, ret |-> ret]

\* Keep the four latest calls: two begins and two ends are the longest scenario.
\* The teardown, a panic and a call turned away by the poisoned lock end a run.
Record(call) ==
    IF Len(hist) < 4 THEN Append(hist, call) ELSE Append(Tail(hist), call)

SetInner(inner) ==
    /\ next_token'       = inner.next_token
    /\ active_tokens'    = inner.active_tokens
    /\ caffeinate_child' = inner.caffeinate_child
    /\ caffeinate_procs' = inner.caffeinate_procs

----------------------------------------------------------------------------
(* Actions. *)

\* The state when the setup closure starts: nothing is managed yet, and
\* MacPerfState::default() is what line 552 manages first.
InitProgram ==
    /\ macos \in BOOLEAN
    /\ next_token = 1
    /\ active_tokens = {}
    /\ caffeinate_child = FALSE
    /\ perf_poisoned = FALSE
    /\ caffeinate_procs = 0
    /\ hist = <<>>
    /\ app_runtime = "none"
    /\ startup_failure = "none"
    /\ backend_base_url = ""
    /\ auth_token = ""
    /\ child = FALSE
    /\ child_poisoned = FALSE
    /\ backend_procs = 0
    /\ events = <<>>
    /\ config_rets = {}
    /\ probe_pc = "idle"
    /\ delay = 0
    /\ elapsed = 0
    /\ requests = 0
    /\ sleeps = <<>>
    /\ got_success = FALSE

\* The threads that run handlers: two of the pool that serves the commands of
\* the UI, and the main thread, which runs the event loop.
UiThreads == {"ui1", "ui2"}

Threads == UiThreads \cup {"main"}

\* No snapshot has been asked for, both Mutexes are free, no thread is in a
\* handler.
InitIdle ==
    /\ runtime_state = <<>>
    /\ lock_owner = [child |-> "free", perf |-> "free"]
    /\ threads = [t \in Threads |-> [pc |-> "idle", local |-> <<>>]]

\* No function is being called on its own.
InitAux ==
    /\ pure_args = <<>>
    /\ pure_ret = <<>>
    /\ InitIdle

Init == InitProgram /\ InitAux

\* #[tauri::command] perf_begin
perf_begin ==
    /\ app_runtime # "none"
    /\ \E reason \in Reasons, spawnOk \in BOOLEAN :
        IF perf_poisoned
        THEN /\ hist' = <<Call("perf_begin", 0, "none", PoisonedPayload(0))>>
             /\ UNCHANGED <<auxVars, macos, next_token, active_tokens, caffeinate_child,
                            perf_poisoned, caffeinate_procs>>
             /\ UNCHANGED bootVars
        ELSE LET r == perf_begin_locked(Inner, reason, spawnOk)
             IN  /\ SetInner(r.inner)
                 /\ hist' = Record(Call("perf_begin", 0, r.spawn, r.ret))
                 /\ UNCHANGED <<auxVars, macos, perf_poisoned>>
                 /\ UNCHANGED bootVars

\* #[tauri::command] perf_end
perf_end ==
    /\ app_runtime # "none"
    /\ \E token \in Tokens :
        IF perf_poisoned
        THEN /\ hist' = <<Call("perf_end", token, "none", PoisonedPayload(token))>>
             /\ UNCHANGED <<auxVars, macos, next_token, active_tokens, caffeinate_child,
                            perf_poisoned, caffeinate_procs>>
             /\ UNCHANGED bootVars
        ELSE LET r == perf_end_locked(Inner, token)
             IN  /\ SetInner(r.inner)
                 /\ hist' = Record(Call("perf_end", token, "none", r.ret))
                 /\ UNCHANGED <<auxVars, macos, perf_poisoned>>
                 /\ UNCHANGED bootVars

\* A thread panicked while it held the perf Mutex: std marks the Mutex poisoned
\* for good, which is what the Err(_) arms of state.inner.lock() handle.
perf_lock_poisoned ==
    /\ app_runtime # "none"
    /\ ~perf_poisoned
    /\ perf_poisoned' = TRUE
    /\ hist' = <<>>
    /\ UNCHANGED <<auxVars, macos, next_token, active_tokens, caffeinate_child,
                   caffeinate_procs, bootVars>>

\* The same for the Mutex around AppRuntime.child (handle.lock().ok()).
child_lock_poisoned ==
    /\ app_runtime # "none"
    /\ ~child_poisoned
    /\ child_poisoned' = TRUE
    /\ UNCHANGED <<auxVars, macos, perfVars, app_runtime, startup_failure,
                   backend_base_url, auth_token,
                   child, backend_procs, events, config_rets, probeVars>>

\* Faulty variant: the handle is taken but child.kill() is not called.
exit_kill_backend_no_kill ==
    IF app_runtime # "none" /\ ~child_poisoned /\ child
    THEN /\ child' = FALSE
         /\ UNCHANGED backend_procs
    ELSE UNCHANGED <<child, backend_procs>>

\* The first half of the RunEvent::Exit handler: take the backend handle and
\* kill the process, unless the Mutex is poisoned or the handle is gone.
exit_kill_backend ==
    IF app_runtime # "none" /\ ~child_poisoned /\ child
    THEN /\ child' = FALSE
         /\ backend_procs' = backend_procs - 1
    ELSE UNCHANGED <<child, backend_procs>>

\* The second half: clear the tokens and stop caffeinate, unless poisoned.
exit_clear_perf ==
    IF ~perf_poisoned
    THEN SetInner(stop_caffeinate([Inner EXCEPT !.active_tokens = {}]))
    ELSE UNCHANGED <<next_token, active_tokens, caffeinate_child,
                     caffeinate_procs>>

\* tauri::RunEvent::Exit
exit ==
    /\ app_runtime # "none"
    /\ exit_kill_backend
    /\ exit_clear_perf
    /\ hist' = <<>>
    /\ UNCHANGED <<auxVars, macos, perf_poisoned, app_runtime, startup_failure,
                   backend_base_url,
                   auth_token, child_poisoned, events, config_rets, probeVars>>

----------------------------------------------------------------------------
(* Backend startup. *)

STARTUP_READY_TIMEOUT_SEC == 60

\* Ports choose_free_port may be given by the OS.
Ports == {49152, 65535}

\* Values of random_token(): 40 alphanumeric characters.
AuthTokens == {"Zk3Xq9LmT0aB7cD2eF4gH6iJ8kL1mN5oP9qR0sTu",
               "a1B2c3D4e5F6g7H8i9J0k1L2m3N4o5P6q7R8s9T0"}

\* The fallible calls of spawn_backend, in the order it makes them; "none" is
\* the run in which all succeed.  "workspace_root" is the second
\* resolve_workspace_root call, made in debug builds only.
StartupFailures ==
    {"bind", "local_addr", "app_data_dir", "create_dir", "sidecar",
     "workspace_root", "spawn"}

\* Display of an integer, as format!("{port}") prints it: its decimal digits.
Display(n) == ToString(n)

\* The anyhow error spawn_backend returns when `failure` fails, as
\* err.to_string() prints it (the outermost context).
StartupError(failure, debug) ==
    CASE failure = "bind"           -> "bind local random port failed"
      [] failure = "local_addr"     -> "read random local address failed"
      [] failure = "app_data_dir"   -> "resolve app data dir failed"
      [] failure = "create_dir"     -> "create app data dir failed: <app_data_dir>"
      [] failure = "sidecar"        -> IF debug
                                       THEN "resolve current dir failed"
                                       ELSE "backend sidecar not found; checked: <candidates>"
      [] failure = "workspace_root" -> "resolve current dir failed"
      [] failure = "spawn"          -> "spawn backend sidecar failed: <cmd_path>"

\* Faulty variant: a failure to create the data directory is ignored.
spawn_backend_ignore_dir(failure, debug, port, token) ==
    IF failure \in {"none", "create_dir"} \/ (failure = "workspace_root" /\ ~debug)
    THEN [ok |-> TRUE, base_url |-> "http://127.0.0.1:" \o Display(port),
          token |-> token, error |-> ""]
    ELSE [ok |-> FALSE, base_url |-> "", token |-> "",
          error |-> StartupError(failure, debug)]

\* spawn_backend: Ok((child, base_url, token)) or Err(error).
spawn_backend(failure, debug, port, token) ==
    IF failure = "none" \/ (failure = "workspace_root" /\ ~debug)
    THEN [ok |-> TRUE, base_url |-> "http://127.0.0.1:" \o Display(port),
          token |-> token, error |-> ""]
    ELSE [ok |-> FALSE, base_url |-> "", token |-> "",
          error |-> StartupError(failure, debug)]

Event(name, ready, error) == [event |-> name, ready |-> ready, error |-> error]

\* app.emit
Emit(ev) == events' = Append(events, ev)

\* fallback_runtime: manage an empty AppRuntime and emit backend-failed.
fallback_runtime(error) ==
    /\ app_runtime' = "fallback"
    /\ backend_base_url' = ""
    /\ auth_token' = ""
    /\ child' = FALSE
    /\ Emit(Event("backend-failed", FALSE, error))
    /\ UNCHANGED <<backend_procs, probeVars>>

\* The Ok arm of setup: manage AppRuntime with the child and spawn the
\* readiness task.
setup_spawned(r) ==
    /\ app_runtime' = "spawned"
    /\ backend_base_url' = r.base_url
    /\ auth_token' = r.token
    /\ child' = TRUE
    /\ backend_procs' = backend_procs + 1
    /\ probe_pc' = "start"
    /\ UNCHANGED <<events, delay, elapsed, requests, sleeps, got_success>>

\* The setup closure of main, with the environment's answers drawn from the
\* given sets.
setup_in(failures, ports, tokens) ==
    /\ app_runtime = "none"
    /\ \E failure \in failures, debug \in BOOLEAN, port \in ports,
          token \in tokens :
          LET r == spawn_backend(failure, debug, port, token)
          IN  /\ startup_failure' = failure
              /\ IF r.ok THEN setup_spawned(r) ELSE fallback_runtime(r.error)
    /\ UNCHANGED <<auxVars, macos, perfVars, child_poisoned, config_rets>>

\* Setup under every startup outcome.
setup == setup_in(StartupFailures \cup {"none"}, Ports, AuthTokens)

\* Setup on one port and with one token, where any of the calls that every
\* build makes may fail.
setup_one_port ==
    setup_in((StartupFailures \ {"workspace_root"}) \cup {"none"},
             {CHOOSE p \in Ports : TRUE}, {CHOOSE t \in AuthTokens : TRUE})

\* Setup where the backend either starts or its process cannot be spawned:
\* the two outcomes the perf commands and the teardown can tell apart.
setup_either ==
    setup_in({"none", "spawn"}, {CHOOSE p \in Ports : TRUE},
             {CHOOSE t \in AuthTokens : TRUE})

\* Setup where the backend starts.
setup_started ==
    setup_in({"none"}, {CHOOSE p \in Ports : TRUE},
             {CHOOSE t \in AuthTokens : TRUE})

\* Faulty variant: the token is handed out only once the backend is ready.
RuntimeConfig_when_ready ==
    [backendBaseUrl |-> backend_base_url,
     authToken |-> IF got_success THEN auth_token ELSE ""]

\* RuntimeConfigPayload
RuntimeConfig == [backendBaseUrl |-> backend_base_url, authToken |-> auth_token]

\* #[tauri::command] get_runtime_config
get_runtime_config ==
    /\ app_runtime # "none"
    /\ config_rets' = config_rets \cup {RuntimeConfig}
    /\ UNCHANGED <<auxVars, macos, perfVars, app_runtime, startup_failure,
                   backend_base_url, auth_token,
                   child, child_poisoned, backend_procs, events, probeVars>>

----------------------------------------------------------------------------
(* The readiness task: wait_for_backend_ready and the emit that follows it. *)

REQUEST_TIMEOUT_SEC == 4

INITIAL_DELAY_MS == 150

MAX_DELAY_SEC == 2

\* How long a /ready request that does not run into the client timeout takes.
FastResponseMs == 50

ResponseDurations == {FastResponseMs, REQUEST_TIMEOUT_SEC * 1000}

\* What send().await gives: a 2xx status, another status, or Err.
Responses == {"2xx", "status", "error"}

Min(a, b) == IF a < b THEN a ELSE b

\* Faulty variant: the doubling has no cap.
NextDelay_uncapped(d) == d * 2

\* delay = min(delay.saturating_mul(2), Duration::from_secs(2))
NextDelay(d) == Min(d * 2, MAX_DELAY_SEC * 1000)

\* Faulty variant: any response counts as ready, status().is_success() is not asked.
LoopStep_any_status(response, now) ==
    IF response \in {"2xx", "status"} THEN "ready"
    ELSE IF now > STARTUP_READY_TIMEOUT_SEC * 1000 THEN "timeout"
    ELSE "sleep"

\* Faulty variant: the timeout is tested before the response's status.
LoopStep_timeout_first(response, now) ==
    IF now > STARTUP_READY_TIMEOUT_SEC * 1000 THEN "timeout"
    ELSE IF response = "2xx" THEN "ready"
    ELSE "sleep"

\* One pass of the loop body after the response arrived, `now` ms after start:
\* "ready" is return Ok(()), "timeout" is the bail!, "sleep" goes on to sleep.
LoopStep(response, now) ==
    IF response = "2xx" THEN "ready"
    ELSE IF now > STARTUP_READY_TIMEOUT_SEC * 1000 THEN "timeout"
    ELSE "sleep"

\* Faulty variant: backend-ready is emitted with ready = false.
EmitResult_not_ready(ok, error) ==
    IF ok THEN Emit(Event("backend-ready", FALSE, ""))
          ELSE Emit(Event("backend-failed", FALSE, error))

\* Faulty variant: the Err arm of the match emits nothing.
EmitResult_drop_failure(ok, error) ==
    IF ok THEN Emit(Event("backend-ready", TRUE, ""))
          ELSE UNCHANGED events

\* The match on wait_for_backend_ready's result in the spawned task.
EmitResult(ok, error) ==
    IF ok THEN Emit(Event("backend-ready", TRUE, ""))
          ELSE Emit(Event("backend-failed", FALSE, error))

\* The task's first poll: build the client, take `start`, send the first GET.
probe_start ==
    /\ probe_pc = "start"
    /\ \E built \in BOOLEAN :
          IF built
          THEN /\ probe_pc' = "request"
               /\ delay' = INITIAL_DELAY_MS
               /\ elapsed' = 0
               /\ requests' = requests + 1
               /\ UNCHANGED <<events, sleeps, got_success>>
          ELSE /\ probe_pc' = "done"
               /\ EmitResult(FALSE, "build readiness http client failed")
               /\ UNCHANGED <<delay, elapsed, requests, sleeps, got_success>>
    /\ UNCHANGED <<auxVars, macos, perfVars, app_runtime, startup_failure,
                   backend_base_url, auth_token,
                   child, child_poisoned, backend_procs, config_rets>>

\* send().await completes: return, bail, or start the sleep.  The response and
\* the time it took are drawn from the given sets.
probe_response_in(responses, durations) ==
    /\ probe_pc = "request"
    /\ \E response \in responses, took \in durations :
          LET now  == elapsed + took
              step == LoopStep(response, now)
          IN  /\ elapsed' = now
              /\ got_success' = (got_success \/ response = "2xx")
              /\ CASE step = "ready" ->
                        /\ probe_pc' = "done"
                        /\ EmitResult(TRUE, "")
                        /\ UNCHANGED sleeps
                   [] step = "timeout" ->
                        /\ probe_pc' = "done"
                        /\ EmitResult(FALSE, "backend readiness timeout after "
                                             \o Display(STARTUP_READY_TIMEOUT_SEC) \o "s")
                        /\ UNCHANGED sleeps
                   [] step = "sleep" ->
                        /\ probe_pc' = "sleep"
                        /\ sleeps' = Append(sleeps, delay)
                        /\ UNCHANGED events
    /\ UNCHANGED <<auxVars, macos, perfVars, app_runtime, startup_failure,
                   backend_base_url, auth_token,
                   child, child_poisoned, backend_procs, config_rets, delay,
                   requests>>

\* The response under every outcome and duration.
probe_response == probe_response_in(Responses, ResponseDurations)

\* The response of a backend that answers 2xx or not at all, each after the
\* client's own timeout.
probe_response_slow ==
    probe_response_in({"2xx", "error"}, {REQUEST_TIMEOUT_SEC * 1000})

\* sleep(delay).await completes: double the delay and send the next GET.
probe_wake ==
    /\ probe_pc = "sleep"
    /\ probe_pc' = "request"
    /\ elapsed' = elapsed + delay
    /\ delay' = NextDelay(delay)
    /\ requests' = requests + 1
    /\ UNCHANGED <<auxVars, macos, perfVars, app_runtime, startup_failure,
                   backend_base_url, auth_token,
                   child, child_poisoned, backend_procs, events, config_rets,
                   sleeps, got_success>>

----------------------------------------------------------------------------
(* Text.  A &str is the sequence of its characters, each a one-character    *)
(* string; Option<T> is <<>> for None and <<v>> for Some(v).                *)

UpperCase ==
    <<"A", "B", "C", "D", "E", "F", "G", "H", "I", "J", "K", "L", "M", "N",
      "O", "P", "Q", "R", "S", "T", "U", "V", "W", "X", "Y", "Z">>

LowerCase ==
    <<"a", "b", "c", "d", "e", "f", "g", "h", "i", "j", "k", "l", "m", "n",
      "o", "p", "q", "r", "s", "t", "u", "v", "w", "x", "y", "z">>

\* char::to_lowercase on the ASCII range.
to_lowercase_char(ch) ==
    IF \E i \in 1..Len(UpperCase) : UpperCase[i] = ch
    THEN LowerCase[CHOOSE i \in 1..Len(UpperCase) : UpperCase[i] = ch]
    ELSE ch

\* str::to_lowercase
to_lowercase(s) == [i \in 1..Len(s) |-> to_lowercase_char(s[i])]

\* str::contains(&str)
contains(s, pat) ==
    \E i \in 0..(Len(s) - Len(pat)) : SubSeq(s, i + 1, i + Len(pat)) = pat

----------------------------------------------------------------------------
(* infer_thermal_level *)

\* "no thermal warning"
NoThermalWarning ==
    <<"n", "o", " ", "t", "h", "e", "r", "m", "a", "l", " ", "w", "a", "r",
      "n", "i", "n", "g">>

\* Faulty variant: the limits are looked at before the raw thermal level.
infer_thermal_level_limits_first(thermal_level_raw, cpu_speed_limit, scheduler_limit, therm_output) ==
    LET min_limit ==
            IF cpu_speed_limit # <<>> /\ scheduler_limit # <<>>
            THEN <<Min(cpu_speed_limit[1], scheduler_limit[1])>>
            ELSE IF cpu_speed_limit # <<>> THEN cpu_speed_limit
            ELSE scheduler_limit
    IN  IF min_limit # <<>>
        THEN IF min_limit[1] <= 50 THEN "critical"
             ELSE IF min_limit[1] <= 75 THEN "serious"
             ELSE IF min_limit[1] <= 90 THEN "fair"
             ELSE "nominal"
        ELSE IF thermal_level_raw # <<>>
        THEN IF thermal_level_raw[1] >= 3 THEN "critical"
             ELSE IF thermal_level_raw[1] = 2 THEN "serious"
             ELSE IF thermal_level_raw[1] = 1 THEN "fair"
             ELSE "nominal"
        ELSE IF contains(to_lowercase(therm_output), NoThermalWarning)
        THEN "nominal"
        ELSE "unknown"

infer_thermal_level(thermal_level_raw, cpu_speed_limit, scheduler_limit, therm_output) ==
    IF thermal_level_raw # <<>>
    THEN LET level == thermal_level_raw[1]
         IN  IF level >= 3 THEN "critical"
             ELSE IF level = 2 THEN "serious"
             ELSE IF level = 1 THEN "fair"
             ELSE "nominal"
    ELSE LET min_limit ==
                 IF cpu_speed_limit # <<>> /\ scheduler_limit # <<>>
                 THEN <<Min(cpu_speed_limit[1], scheduler_limit[1])>>
                 ELSE IF cpu_speed_limit # <<>> THEN cpu_speed_limit
                 ELSE IF scheduler_limit # <<>> THEN scheduler_limit
                 ELSE <<>>
         IN  IF min_limit # <<>>
             THEN LET limit == min_limit[1]
                  IN  IF limit <= 50 THEN "critical"
                      ELSE IF limit <= 75 THEN "serious"
                      ELSE IF limit <= 90 THEN "fair"
                      ELSE "nominal"
             ELSE IF contains(to_lowercase(therm_output), NoThermalWarning)
             THEN "nominal"
             ELSE "unknown"

\* Values of thermal_level_raw: None, and the levels around the match arms.
ThermalLevels == {<<>>} \cup {<<v>> : v \in -1..4}

\* Values of cpu_speed_limit and scheduler_limit: None, and percentages on
\* both sides of each threshold.
LimitValues ==
    {<<>>} \cup {<<v>> : v \in {0, 40, 50, 51, 70, 75, 76, 85, 90, 91, 95, 100}}

\* Values of therm_output, as pmset -g therm prints them and otherwise.
ThermOutputs ==
    {<<>>,
     \* "Note: No thermal warning level has been recorded"
     <<"N", "o", "t", "e", ":", " ", "N", "o", " ", "t", "h", "e", "r", "m",
        "a", "l", " ", "w", "a", "r", "n", "i", "n", "g", " ", "l", "e", "v",
        "e", "l", " ", "h", "a", "s", " ", "b", "e", "e", "n", " ", "r", "e",
        "c", "o", "r", "d", "e", "d">>,
     \* "NO THERMAL WARNING"
     <<"N", "O", " ", "T", "H", "E", "R", "M", "A", "L", " ", "W", "A", "R",
        "N", "I", "N", "G">>,
     \* "no thermal  warning"
     <<"n", "o", " ", "t", "h", "e", "r", "m", "a", "l", " ", " ", "w", "a",
        "r", "n", "i", "n", "g">>,
     \* "CPU_Speed_Limit = 80"
     <<"C", "P", "U", "_", "S", "p", "e", "e", "d", "_", "L", "i", "m", "i",
        "t", " ", "=", " ", "8", "0">>}

ThermalArgs ==
    [thermal_level_raw : ThermalLevels, cpu_speed_limit : LimitValues,
     scheduler_limit : LimitValues, therm_output : ThermOutputs]

InitThermal ==
    /\ InitProgram
    /\ InitIdle
    /\ pure_args \in ThermalArgs
    /\ pure_ret = <<>>

\* snapshot_macos_runtime_state calls infer_thermal_level on what it extracted.
call_infer_thermal_level ==
    /\ pure_ret = <<>>
    /\ pure_ret' = <<infer_thermal_level(pure_args.thermal_level_raw,
                                         pure_args.cpu_speed_limit,
                                         pure_args.scheduler_limit,
                                         pure_args.therm_output)>>
    /\ UNCHANGED <<macos, perfVars, bootVars, pure_args, runtime_state, lockVars>>

SpecThermal == InitThermal /\ [][call_infer_thermal_level]_vars

----------------------------------------------------------------------------
(* find_sidecar_path.  Paths and messages are character sequences. *)

\* "python"
PYTHON ==
    <<"p", "y", "t", "h", "o", "n">>

\* "backend"
BACKEND_DIR ==
    <<"b", "a", "c", "k", "e", "n", "d">>

\* "desktop_server.py"
BACKEND_SCRIPT ==
    <<"d", "e", "s", "k", "t", "o", "p", "_", "s", "e", "r", "v", "e", "r",
      ".", "p", "y">>

\* "binaries"
BINARIES_DIR ==
    <<"b", "i", "n", "a", "r", "i", "e", "s">>

\* "filesmind-backend"
BINARY_NAME ==
    <<"f", "i", "l", "e", "s", "m", "i", "n", "d", "-", "b", "a", "c", "k",
      "e", "n", "d">>

\* ".exe"
EXE_SUFFIX ==
    <<".", "e", "x", "e">>

\* "backend sidecar not found; checked: "
NOT_FOUND_PREFIX ==
    <<"b", "a", "c", "k", "e", "n", "d", " ", "s", "i", "d", "e", "c", "a",
      "r", " ", "n", "o", "t", " ", "f", "o", "u", "n", "d", ";", " ", "c",
      "h", "e", "c", "k", "e", "d", ":", " ">>

\* "resolve current dir failed"
CURRENT_DIR_FAILED ==
    <<"r", "e", "s", "o", "l", "v", "e", " ", "c", "u", "r", "r", "e", "n",
      "t", " ", "d", "i", "r", " ", "f", "a", "i", "l", "e", "d">>

\* char::is_whitespace, on the characters the inputs use.
Whitespace == {" ", "\t"}

\* str::trim
RECURSIVE trim_start(_)
trim_start(s) ==
    IF s # <<>> /\ Head(s) \in Whitespace THEN trim_start(Tail(s)) ELSE s

RECURSIVE trim_end(_)
trim_end(s) ==
    IF s # <<>> /\ s[Len(s)] \in Whitespace
    THEN trim_end(SubSeq(s, 1, Len(s) - 1))
    ELSE s

trim(s) == trim_end(trim_start(s))

\* std::path::is_separator and MAIN_SEPARATOR of the build target.
Separators(windows) == IF windows THEN {"/", "\\"} ELSE {"/"}

MainSeparator(windows) == IF windows THEN "\\" ELSE "/"

\* Path::join with a relative name.
join(windows, path, name) ==
    IF path = <<>> THEN name
    ELSE IF path[Len(path)] \in Separators(windows) THEN path \o name
    ELSE path \o <<MainSeparator(windows)>> \o name

\* Path::parent of an absolute path: Some(path without its last component),
\* None for the root.
parent(windows, path) ==
    LET seps == {i \in 1..Len(path) : path[i] \in Separators(windows)}
        last == CHOOSE i \in seps : \A j \in seps : j <= i
    IN  IF seps = {} \/ Len(path) <= 1 THEN <<>>
        ELSE IF last = 1 THEN <<SubSeq(path, 1, 1)>>
        ELSE <<SubSeq(path, 1, last - 1)>>

\* Path::exists, against the files the environment has.
exists(env, path) == path \in env.existing

\* resolve_workspace_root: Ok(root) as <<root>>, Err as <<>>.
resolve_workspace_root(env) ==
    IF env.current_dir = <<>> THEN <<>>
    ELSE LET cwd == env.current_dir[1]
             up  == parent(env.windows, cwd)
             parent_dir == IF up = <<>> THEN cwd ELSE up[1]
         IN  IF exists(env, join(env.windows, cwd, BACKEND_DIR)) THEN <<cwd>>
             ELSE IF exists(env, join(env.windows, parent_dir, BACKEND_DIR))
             THEN <<parent_dir>>
             ELSE <<cwd>>

binary_name(windows) ==
    IF windows THEN BINARY_NAME \o EXE_SUFFIX ELSE BINARY_NAME

\* The candidates vector of packaged mode, in the order it is filled.
candidates(env) ==
    LET name == binary_name(env.windows)
        exe_dir == IF env.current_exe = <<>> THEN <<>>
                   ELSE parent(env.windows, env.current_exe[1])
        by_exe == IF exe_dir = <<>> THEN <<>>
                  ELSE <<join(env.windows, exe_dir[1], name)>>
        by_resource ==
            IF env.resource_dir = <<>> THEN <<>>
            ELSE <<join(env.windows,
                        join(env.windows, env.resource_dir[1], BINARIES_DIR),
                        name),
                   join(env.windows, env.resource_dir[1], name)>>
    IN  by_exe \o by_resource

\* paths.join(", ")
RECURSIVE join_display(_)
join_display(paths) ==
    IF paths = <<>> THEN <<>>
    ELSE IF Len(paths) = 1 THEN paths[1]
    ELSE paths[1] \o <<",", " ">> \o join_display(Tail(paths))

SidecarOk(path, args) == [ok |-> TRUE, path |-> path, args |-> args]

SidecarErr(error) == [ok |-> FALSE, error |-> error]

\* for candidate in &candidates { if candidate.exists() { return Ok(..) } }
RECURSIVE first_existing(_, _)
first_existing(env, paths) ==
    IF paths = <<>> THEN <<>>
    ELSE IF exists(env, Head(paths)) THEN <<Head(paths)>>
    ELSE first_existing(env, Tail(paths))

\* Faulty variant: the resource directory is searched before its binaries folder.
find_sidecar_path_resource_first(env) ==
    LET trimmed == IF env.override = <<>> THEN <<>> ELSE trim(env.override[1])
    IN  IF trimmed # <<>> THEN SidecarOk(trimmed, <<>>)
        ELSE IF env.debug
        THEN LET workspace_root == resolve_workspace_root(env)
             IN  IF workspace_root = <<>> THEN SidecarErr(CURRENT_DIR_FAILED)
                 ELSE SidecarOk(PYTHON,
                        <<join(env.windows,
                               join(env.windows, workspace_root[1], BACKEND_DIR),
                               BACKEND_SCRIPT)>>)
        ELSE LET all   == candidates(env)
                 order == IF Len(all) >= 2
                          THEN SubSeq(all, 1, Len(all) - 2)
                               \o <<all[Len(all)], all[Len(all) - 1]>>
                          ELSE all
                 found == first_existing(env, order)
             IN  IF found # <<>> THEN SidecarOk(found[1], <<>>)
                 ELSE SidecarErr(NOT_FOUND_PREFIX \o join_display(order))

\* find_sidecar_path: Ok((path, args)) or Err(message).
find_sidecar_path(env) ==
    LET trimmed == IF env.override = <<>> THEN <<>> ELSE trim(env.override[1])
    IN  IF trimmed # <<>> THEN SidecarOk(trimmed, <<>>)
        ELSE IF env.debug
        THEN LET workspace_root == resolve_workspace_root(env)
             IN  IF workspace_root = <<>> THEN SidecarErr(CURRENT_DIR_FAILED)
                 ELSE SidecarOk(PYTHON,
                        <<join(env.windows,
                               join(env.windows, workspace_root[1], BACKEND_DIR),
                               BACKEND_SCRIPT)>>)
        ELSE LET found == first_existing(env, candidates(env))
             IN  IF found # <<>> THEN SidecarOk(found[1], <<>>)
                 ELSE SidecarErr(NOT_FOUND_PREFIX
                                 \o join_display(candidates(env)))

\* Values of FILESMIND_SIDECAR_PATH: unset, "", "  ", "/opt/sc", " /opt/sc\t".
Overrides ==
    {<<>>, <<<<>>>>, <<<<" ", " ">>>>,
     <<<<"/", "o", "p", "t", "/", "s", "c">>>>,
     <<<<" ", "/", "o", "p", "t", "/", "s", "c", "\t">>>>}

\* Values of current_dir(): Err, "/ws/app", "/ws".
CurrentDirs ==
    {<<>>,
     <<<<"/", "w", "s", "/", "a", "p", "p">>>>,
     <<<<"/", "w", "s">>>>}

\* Values of current_exe(): Err, "/app/bin/filesmind".
CurrentExes ==
    {<<>>,
     <<<<"/", "a", "p", "p", "/", "b", "i", "n", "/", "f", "i", "l", "e", "s",
         "m", "i", "n", "d">>>>}

\* Values of resource_dir(): Err, "/app/res".
ResourceDirs ==
    {<<>>,
     <<<<"/", "a", "p", "p", "/", "r", "e", "s">>>>}

\* The paths find_sidecar_path may ask the file system about.
ProbedPaths(env) ==
    {candidates(env)[i] : i \in 1..Len(candidates(env))}
    \cup (IF env.current_dir = <<>> THEN {}
          ELSE LET cwd == env.current_dir[1]
                   up  == parent(env.windows, cwd)
               IN  {join(env.windows, cwd, BACKEND_DIR)}
                   \cup {join(env.windows, up[i], BACKEND_DIR) :
                            i \in 1..Len(up)})

InitSidecar ==
    /\ InitProgram
    /\ InitIdle
    /\ \E override \in Overrides, debug \in BOOLEAN, windows \in BOOLEAN,
          current_dir \in CurrentDirs, current_exe \in CurrentExes,
          resource_dir \in ResourceDirs :
          LET env == [override |-> override, debug |-> debug,
                      windows |-> windows, current_dir |-> current_dir,
                      current_exe |-> current_exe,
                      resource_dir |-> resource_dir]
          IN  \E existing \in SUBSET ProbedPaths(env) :
                  pure_args = [override |-> override, debug |-> debug,
                               windows |-> windows, current_dir |-> current_dir,
                               current_exe |-> current_exe,
                               resource_dir |-> resource_dir,
                               existing |-> existing]
    /\ pure_ret = <<>>

\* spawn_backend calls find_sidecar_path.
call_find_sidecar_path ==
    /\ pure_ret = <<>>
    /\ pure_ret' = <<find_sidecar_path(pure_args)>>
    /\ UNCHANGED <<macos, perfVars, bootVars, pure_args, runtime_state, lockVars>>

SpecSidecar == InitSidecar /\ [][call_find_sidecar_path]_vars

----------------------------------------------------------------------------
(* extract_int_from_key *)

Digits == <<"0", "1", "2", "3", "4", "5", "6", "7", "8", "9">>

\* char::is_ascii_digit
is_ascii_digit(ch) == \E i \in 1..10 : Digits[i] = ch

\* The value of a digit character.
digit_value(ch) == (CHOOSE i \in 1..10 : Digits[i] = ch) - 1

\* str::lines: the pieces between line feeds; a last empty piece is no line.
RECURSIVE lines(_)
lines(s) ==
    IF s = <<>> THEN <<>>
    ELSE LET feeds == {i \in 1..Len(s) : s[i] = "\n"}
             first == CHOOSE i \in feeds : \A j \in feeds : i <= j
         IN  IF feeds = {} THEN <<s>>
             ELSE <<SubSeq(s, 1, first - 1)>>
                  \o lines(SubSeq(s, first + 1, Len(s)))

\* The loop over line.chars(): the text collected in `number`.
RECURSIVE scan_number(_, _, _)
scan_number(line, number, seen_digit) ==
    IF line = <<>> THEN number
    ELSE LET ch == Head(line)
         IN  IF is_ascii_digit(ch) \/ (ch = "-" /\ ~seen_digit /\ number = <<>>)
             THEN scan_number(Tail(line), Append(number, ch),
                              seen_digit \/ is_ascii_digit(ch))
             ELSE IF seen_digit THEN number
             ELSE scan_number(Tail(line), number, seen_digit)

I32_MAX == 2147483647

\* The digit loop of i32::from_str: checked_mul(10), then checked_add or
\* checked_sub of the digit; <<>> is Err(overflow).
RECURSIVE parse_digits(_, _, _)
parse_digits(digits, acc, negative) ==
    IF digits = <<>> THEN <<acc>>
    ELSE LET d == digit_value(Head(digits))
             limit == I32_MAX \div 10
             last  == IF negative THEN (I32_MAX % 10) + 1 ELSE I32_MAX % 10
         IN  IF negative
             THEN IF acc < -limit \/ (acc = -limit /\ d > last) THEN <<>>
                  ELSE parse_digits(Tail(digits), acc * 10 - d, negative)
             ELSE IF acc > limit \/ (acc = limit /\ d > last) THEN <<>>
                  ELSE parse_digits(Tail(digits), acc * 10 + d, negative)

\* number.parse::<i32>() on what scan_number collects (an optional minus sign,
\* then digits): Ok(value) as <<value>>, Err as <<>>.
parse_i32(number) ==
    IF number = <<>> THEN <<>>
    ELSE IF Head(number) = "-"
    THEN IF Tail(number) = <<>> THEN <<>>
         ELSE parse_digits(Tail(number), 0, TRUE)
    ELSE parse_digits(number, 0, FALSE)

\* The loop over output.lines().
RECURSIVE extract_from_lines(_, _)
extract_from_lines(ls, key) ==
    IF ls = <<>> THEN <<>>
    ELSE LET line   == Head(ls)
             lower  == to_lowercase(line)
             number == scan_number(line, <<>>, FALSE)
         IN  IF ~contains(lower, to_lowercase(key))
             THEN extract_from_lines(Tail(ls), key)
             ELSE IF number = <<>> THEN extract_from_lines(Tail(ls), key)
             ELSE IF parse_i32(number) # <<>> THEN parse_i32(number)
             ELSE extract_from_lines(Tail(ls), key)

\* extract_int_from_key: Some(value) as <<value>>, None as <<>>.
extract_int_from_key(output, key) == extract_from_lines(lines(output), key)

\* Lines of pmset output, and lines that strain the scan.
ThermLines ==
    {
     \* "CPU_Speed_Limit \t= 45"
     <<"C", "P", "U", "_", "S", "p", "e", "e", "d", "_", "L", "i", "m",
       "i", "t", " ", "\t", "=", " ", "4", "5">>,
     \* "cpu_speed_limit = -45"
     <<"c", "p", "u", "_", "s", "p", "e", "e", "d", "_", "l", "i", "m",
       "i", "t", " ", "=", " ", "-", "4", "5">>,
     \* "x-y CPU_Speed_Limit 45"
     <<"x", "-", "y", " ", "C", "P", "U", "_", "S", "p", "e", "e", "d",
       "_", "L", "i", "m", "i", "t", " ", "4", "5">>,
     \* "CPU_Speed_Limit --7 8"
     <<"C", "P", "U", "_", "S", "p", "e", "e", "d", "_", "L", "i", "m",
       "i", "t", " ", "-", "-", "7", " ", "8">>,
     \* "CPU_Speed_Limit = none -"
     <<"C", "P", "U", "_", "S", "p", "e", "e", "d", "_", "L", "i", "m",
       "i", "t", " ", "=", " ", "n", "o", "n", "e", " ", "-">>,
     \* "cpu_speed_limit 99999999999"
     <<"c", "p", "u", "_", "s", "p", "e", "e", "d", "_", "l", "i", "m",
       "i", "t", " ", "9", "9", "9", "9", "9", "9", "9", "9", "9", "9",
       "9">>,
     \* "Thermal Level: 2"
     <<"T", "h", "e", "r", "m", "a", "l", " ", "L", "e", "v", "e", "l",
       ":", " ", "2">>,
     \* "CPU_Scheduler_Limit = 100"
     <<"C", "P", "U", "_", "S", "c", "h", "e", "d", "u", "l", "e", "r",
       "_", "L", "i", "m", "i", "t", " ", "=", " ", "1", "0", "0">>,
     \* "2024-01-05 thermal level 3"
     <<"2", "0", "2", "4", "-", "0", "1", "-", "0", "5", " ", "t", "h",
       "e", "r", "m", "a", "l", " ", "l", "e", "v", "e", "l", " ", "3">>,
     \* "cpu_speed_limit = -2147483648"
     <<"c", "p", "u", "_", "s", "p", "e", "e", "d", "_", "l", "i", "m",
       "i", "t", " ", "=", " ", "-", "2", "1", "4", "7", "4", "8", "3",
       "6", "4", "8">>,
     \* "cpu_speed_limit = 2147483648"
     <<"c", "p", "u", "_", "s", "p", "e", "e", "d", "_", "l", "i", "m",
       "i", "t", " ", "=", " ", "2", "1", "4", "7", "4", "8", "3", "6",
       "4", "8">>}

\* The outputs: nothing, one line, or two lines with a line feed between them.
ExtractOutputs ==
    {<<>>} \cup ThermLines
    \cup {a \o <<"\n">> \o b : a \in ThermLines, b \in ThermLines}

\* "cpu_speed_limit"
KEY_CPU_SPEED_LIMIT ==
    <<"c", "p", "u", "_", "s", "p", "e", "e", "d", "_", "l", "i", "m", "i", "t">>

\* "scheduler_limit"
KEY_SCHEDULER_LIMIT ==
    <<"s", "c", "h", "e", "d", "u", "l", "e", "r", "_", "l", "i", "m", "i", "t">>

\* "cpu_available_cpus"
KEY_AVAILABLE_CPUS ==
    <<"c", "p", "u", "_", "a", "v", "a", "i", "l", "a", "b", "l", "e", "_",
      "c", "p", "u", "s">>

\* "thermal level"
KEY_THERMAL_LEVEL ==
    <<"t", "h", "e", "r", "m", "a", "l", " ", "l", "e", "v", "e", "l">>

\* Two of the keys snapshot_macos_runtime_state asks for: one written with
\* underscores, one with a blank.
ExtractKeys == {KEY_CPU_SPEED_LIMIT, KEY_THERMAL_LEVEL}

InitExtract ==
    /\ InitProgram
    /\ InitIdle
    /\ pure_args \in [output : ExtractOutputs, key : ExtractKeys]
    /\ pure_ret = <<>>

\* snapshot_macos_runtime_state calls extract_int_from_key; the returned
\* Option is kept as it is, so pure_ret is <<None>> or <<Some(value)>>.
call_extract_int_from_key ==
    /\ pure_ret = <<>>
    /\ pure_ret' = <<extract_int_from_key(pure_args.output, pure_args.key)>>
    /\ UNCHANGED <<macos, perfVars, bootVars, pure_args, runtime_state, lockVars>>

SpecExtract == InitExtract /\ [][call_extract_int_from_key]_vars

----------------------------------------------------------------------------
(* macos_runtime_state *)

\* What `pmset -g therm` may print: nothing (the command failed), or limits.
PmsetOutputs ==
    {<<>>,
     \* "CPU_Speed_Limit \t= 45"
     <<"C", "P", "U", "_", "S", "p", "e", "e", "d", "_", "L", "i", "m", "i", "t",
       " ", "\t", "=", " ", "4", "5">>}

\* snapshot_macos_runtime_state, without the fields that come from the clock
\* and from `pmset -g` alone (timestamp_ms, low_power_mode).
snapshot_macos_runtime_state(perf_active_tokens, caffeinate_active, therm_output) ==
    IF macos
    THEN LET cpu_speed_limit   == extract_int_from_key(therm_output, KEY_CPU_SPEED_LIMIT)
             scheduler_limit   == extract_int_from_key(therm_output, KEY_SCHEDULER_LIMIT)
             available_cpus    == extract_int_from_key(therm_output, KEY_AVAILABLE_CPUS)
             thermal_level_raw == extract_int_from_key(therm_output, KEY_THERMAL_LEVEL)
         IN  [platform         |-> "macos",
              thermalLevel     |-> infer_thermal_level(thermal_level_raw,
                                       cpu_speed_limit, scheduler_limit,
                                       therm_output),
              cpuSpeedLimit    |-> cpu_speed_limit,
              schedulerLimit   |-> scheduler_limit,
              availableCpus    |-> available_cpus,
              perfActiveTokens |-> perf_active_tokens,
              caffeinateActive |-> caffeinate_active,
              source           |-> "pmset"]
    ELSE [platform         |-> "other",
          thermalLevel     |-> "unknown",
          cpuSpeedLimit    |-> <<>>,
          schedulerLimit   |-> <<>>,
          availableCpus    |-> <<>>,
          perfActiveTokens |-> perf_active_tokens,
          caffeinateActive |-> caffeinate_active,
          source           |-> "unsupported"]

\* Faulty variant: the number of tokens handed out so far is reported, and a
\* poisoned lock is read through.
macos_runtime_state_in_issued(outputs) ==
    /\ app_runtime # "none"
    /\ UNCHANGED <<macos, perfVars, bootVars, pureVars, lockVars>>
    /\ \E therm_output \in outputs :
          runtime_state' =
              <<snapshot_macos_runtime_state(next_token - 1, caffeinate_child,
                                             therm_output)>>

\* #[tauri::command] macos_runtime_state, with the output of pmset drawn from
\* the given set.
macos_runtime_state_in(outputs) ==
    /\ app_runtime # "none"
    /\ UNCHANGED <<macos, perfVars, bootVars, pureVars, lockVars>>
    /\ \E therm_output \in outputs :
          runtime_state' =
              IF perf_poisoned
              THEN <<snapshot_macos_runtime_state(0, FALSE, therm_output)>>
              ELSE <<snapshot_macos_runtime_state(Cardinality(active_tokens),
                                                  caffeinate_child, therm_output)>>

\* The snapshot under every output of pmset.
macos_runtime_state == macos_runtime_state_in(PmsetOutputs)

\* The snapshot on a machine where pmset cannot be run.
macos_runtime_state_no_pmset == macos_runtime_state_in({<<>>})

----------------------------------------------------------------------------
(* The handlers step by step: where each thread takes a Mutex and where it *)
(* drops the guard.  The call history is left to the atomic commands.      *)

SetThread(t, pc, local) ==
    threads' = [threads EXCEPT ![t] = [pc |-> pc, local |-> local]]

\* Mutex::lock returned a guard to thread t.
Acquire(lock, t) == lock_owner' = [lock_owner EXCEPT ![lock] = t]

\* The guard is dropped.
Release(lock) == lock_owner' = [lock_owner EXCEPT ![lock] = "free"]

\* The commands whose first statement is state.inner.lock().
PerfCommands == {"perf_begin", "perf_end", "macos_runtime_state"}

\* A thread of the pool is handed a command and enters state.inner.lock().
call_command(t) ==
    /\ app_runtime # "none"
    /\ t \in UiThreads
    /\ threads[t].pc = "idle"
    /\ \E command \in PerfCommands : SetThread(t, command \o ".lock", <<>>)
    /\ UNCHANGED <<macos, perfVars, bootVars, pureVars, runtime_state,
                   lock_owner>>

\* get_runtime_config on a thread of the pool: it takes no lock.
call_get_runtime_config(t) ==
    /\ t \in UiThreads
    /\ threads[t].pc = "idle"
    /\ get_runtime_config

\* state.inner.lock() / perf_state.inner.lock() returns: the Mutex was free.
\* A poisoned Mutex hands out its guard as well, inside the Err.
lock_perf(t) ==
    /\ threads[t].pc \in {command \o ".lock" : command \in PerfCommands}
                         \cup {"exit.perf_lock"}
    /\ lock_owner.perf = "free"
    /\ Acquire("perf", t)
    /\ SetThread(t, CASE threads[t].pc = "perf_begin.lock" -> "perf_begin.guard"
                      [] threads[t].pc = "perf_end.lock" -> "perf_end.guard"
                      [] threads[t].pc = "macos_runtime_state.lock" ->
                             "macos_runtime_state.guard"
                      [] threads[t].pc = "exit.perf_lock" -> "exit.perf_guard",
                 threads[t].local)
    /\ UNCHANGED <<macos, perfVars, bootVars, pureVars, runtime_state>>

\* The body of perf_begin under the guard, which is dropped on return.
perf_begin_guarded(t) ==
    /\ threads[t].pc = "perf_begin.guard"
    /\ \E reason \in Reasons, spawnOk \in BOOLEAN :
          IF perf_poisoned
          THEN UNCHANGED <<next_token, active_tokens, caffeinate_child,
                           caffeinate_procs>>
          ELSE SetInner(perf_begin_locked(Inner, reason, spawnOk).inner)
    /\ Release("perf")
    /\ SetThread(t, "idle", <<>>)
    /\ UNCHANGED <<macos, perf_poisoned, hist, bootVars, pureVars,
                   runtime_state>>

\* The body of perf_end under the guard, which is dropped on return.
perf_end_guarded(t) ==
    /\ threads[t].pc = "perf_end.guard"
    /\ \E token \in Tokens :
          IF perf_poisoned
          THEN UNCHANGED <<next_token, active_tokens, caffeinate_child,
                           caffeinate_procs>>
          ELSE SetInner(perf_end_locked(Inner, token).inner)
    /\ Release("perf")
    /\ SetThread(t, "idle", <<>>)
    /\ UNCHANGED <<macos, perf_poisoned, hist, bootVars, pureVars,
                   runtime_state>>

\* The match of macos_runtime_state: the two values are read under the guard,
\* which is dropped at the end of the statement.
macos_runtime_state_guarded(t) ==
    /\ threads[t].pc = "macos_runtime_state.guard"
    /\ Release("perf")
    /\ SetThread(t, "macos_runtime_state.snapshot",
                 IF perf_poisoned THEN <<0, FALSE>>
                 ELSE <<Cardinality(active_tokens), caffeinate_child>>)
    /\ UNCHANGED <<macos, perfVars, bootVars, pureVars, runtime_state>>

\* snapshot_macos_runtime_state runs pmset with no lock held, and returns.
macos_runtime_state_snapshot(t) ==
    /\ threads[t].pc = "macos_runtime_state.snapshot"
    /\ \E therm_output \in {<<>>} :
          runtime_state' =
              <<snapshot_macos_runtime_state(threads[t].local[1],
                                             threads[t].local[2], therm_output)>>
    /\ SetThread(t, "idle", <<>>)
    /\ UNCHANGED <<macos, perfVars, bootVars, pureVars, lock_owner>>

\* The event loop delivers RunEvent::Exit: the handler enters handle.lock().
exit_event(t) ==
    /\ app_runtime # "none"
    /\ t = "main"
    /\ threads[t].pc = "idle"
    /\ SetThread(t, "exit.child_lock", <<>>)
    /\ UNCHANGED <<macos, perfVars, bootVars, pureVars, runtime_state,
                   lock_owner>>

\* handle.lock() returns.
lock_child(t) ==
    /\ threads[t].pc = "exit.child_lock"
    /\ lock_owner.child = "free"
    /\ Acquire("child", t)
    /\ SetThread(t, "exit.child_guard", <<>>)
    /\ UNCHANGED <<macos, perfVars, bootVars, pureVars, runtime_state>>

\* Faulty variant: the guard of the handle lock is kept until the handler ends.
exit_take_child_keep_guard(t) ==
    /\ threads[t].pc = "exit.child_guard"
    /\ child' = (child /\ child_poisoned)
    /\ SetThread(t, "exit.kill", <<child /\ ~child_poisoned>>)
    /\ UNCHANGED <<macos, perfVars, app_runtime, startup_failure,
                   backend_base_url, auth_token, child_poisoned, backend_procs,
                   events, config_rets, probeVars, pureVars, runtime_state,
                   lock_owner>>

\* .ok().and_then(|mut guard| guard.take()): the Child is taken out of the
\* Option and the guard is dropped when the closure returns.
exit_take_child(t) ==
    /\ threads[t].pc = "exit.child_guard"
    /\ child' = (child /\ child_poisoned)
    /\ Release("child")
    /\ SetThread(t, "exit.kill", <<child /\ ~child_poisoned>>)
    /\ UNCHANGED <<macos, perfVars, app_runtime, startup_failure,
                   backend_base_url, auth_token, child_poisoned, backend_procs,
                   events, config_rets, probeVars, pureVars, runtime_state>>

\* if let Some(mut child) = child_to_kill { child.kill() }, then the handler
\* enters perf_state.inner.lock().
exit_kill_child(t) ==
    /\ threads[t].pc = "exit.kill"
    /\ backend_procs' = IF threads[t].local[1] THEN backend_procs - 1
                        ELSE backend_procs
    /\ SetThread(t, "exit.perf_lock", <<>>)
    /\ UNCHANGED <<macos, perfVars, app_runtime, startup_failure,
                   backend_base_url, auth_token, child, child_poisoned, events,
                   config_rets, probeVars, pureVars, runtime_state, lock_owner>>

\* The tokens are cleared and caffeinate stopped under the guard, which is
\* dropped at the end of the if let.
exit_clear_guarded(t) ==
    /\ threads[t].pc = "exit.perf_guard"
    /\ exit_clear_perf
    /\ Release("perf")
    /\ SetThread(t, "exited", <<>>)
    /\ UNCHANGED <<macos, perf_poisoned, hist, bootVars, pureVars,
                   runtime_state>>

\* The steps a thread takes while it holds the guard of the perf lock.
GuardedPerf(t) ==
    \/ perf_begin_guarded(t)
    \/ perf_end_guarded(t)
    \/ macos_runtime_state_guarded(t)
    \/ exit_clear_guarded(t)

\* The steps a thread takes while it holds a guard.
Guarded(t) == GuardedPerf(t) \/ exit_take_child(t)

\* The steps between the locks, and the calls.
Unguarded(t) ==
    \/ call_command(t)
    \/ call_get_runtime_config(t)
    \/ lock_perf(t)
    \/ macos_runtime_state_snapshot(t)
    \/ exit_event(t)
    \/ lock_child(t)
    \/ exit_kill_child(t)

\* The whole lifetime of the application on a macOS build: startup, the
\* readiness task, every command of the UI, and the teardown.  A run of perf
\* commands not interrupted by the teardown is at most MaxLifeCalls long.
InitLife == Init /\ macos

NextLocks == setup_started \/ \E t \in Threads : Guarded(t) \/ Unguarded(t)

SpecLocks == InitLife /\ [][NextLocks]_vars

\* The OS keeps running a thread that is not blocked: the thread that holds
\* the guard of a lock goes on to the point where the guard is dropped.
SpecLocksFair ==
    /\ SpecLocks
    /\ WF_vars(\E t \in Threads : GuardedPerf(t))
    /\ WF_vars(\E t \in Threads : exit_take_child(t))

----------------------------------------------------------------------------
(* Specifications. *)

\* The perf-session commands and the teardown, once setup has run.
Next == setup_either \/ perf_begin \/ perf_end \/ exit \/ perf_lock_poisoned

Spec == Init /\ [][Next]_vars

\* Backend startup, the readiness task and the teardown.
NextBoot ==
    \/ setup
    \/ probe_start
    \/ probe_response
    \/ probe_wake
    \/ get_runtime_config
    \/ exit
    \/ child_lock_poisoned

SpecBoot == Init /\ [][NextBoot]_vars


NextLife ==
    \/ setup_one_port
    \/ probe_start
    \/ probe_response_slow
    \/ probe_wake
    \/ get_runtime_config
    \/ (Len(hist) < MaxLifeCalls /\ perf_begin)
    \/ (Len(hist) < MaxLifeCalls /\ perf_end)
    \/ macos_runtime_state_no_pmset
    \/ exit

SpecLife == InitLife /\ [][NextLife]_vars

\* The perf commands, the teardown and a poisoned perf lock, with the snapshot
\* query between them, on both builds.
NextSnapshot ==
    \/ setup_started
    \/ (Len(hist) < MaxLifeCalls /\ perf_begin)
    \/ (Len(hist) < MaxLifeCalls /\ perf_end)
    \/ exit
    \/ perf_lock_poisoned
    \/ macos_runtime_state

SpecSnapshot == Init /\ [][NextSnapshot]_vars

\* The async runtime keeps polling the task: each step that is enabled is taken.
SpecBootFair ==
    /\ SpecBoot
    /\ WF_vars(probe_start)
    /\ WF_vars(probe_response)
    /\ WF_vars(probe_wake)

----------------------------------------------------------------------------
(* Reading the call history. *)

\* The perf state right after call i: the state before the next call, or the
\* current state when i is the latest call.
PostActive(i) ==
    IF i < Len(hist) THEN hist[i + 1].pre.active_tokens ELSE active_tokens

PostChild(i) ==
    IF i < Len(hist) THEN hist[i + 1].pre.caffeinate_child ELSE caffeinate_child

PostNextToken(i) ==
    IF i < Len(hist) THEN hist[i + 1].pre.next_token ELSE next_token

\* Calls i and i+1 are two perf_begin calls that both started a session, the
\* first with no session active: the scenario of two concurrent callers, in the
\* order in which they got the lock.
TwoBegins(i) ==
    /\ i + 1 <= Len(hist)
    /\ hist[i].op = "perf_begin" /\ hist[i].ret.active
    /\ hist[i + 1].op = "perf_begin" /\ hist[i + 1].ret.active
    /\ hist[i].pre.active_tokens = {}

\* Call j is perf_end with one of the two tokens those calls returned.
EndsOneOf(i, j) ==
    /\ j <= Len(hist)
    /\ hist[j].op = "perf_end"
    /\ hist[j].arg \in {hist[i].ret.token, hist[i + 1].ret.token}

\* Calls j and j+1 are one perf_end for each of the two returned tokens.
EndsEach(i, j) ==
    /\ EndsOneOf(i, j)
    /\ EndsOneOf(i, j + 1)
    /\ \/ /\ hist[j].arg = hist[i].ret.token
          /\ hist[j + 1].arg = hist[i + 1].ret.token
       \/ /\ hist[j].arg = hist[i + 1].ret.token
          /\ hist[j + 1].arg = hist[i].ret.token

----------------------------------------------------------------------------
(* The perf-session claims, under Spec. *)

\* C1 as stated: in every reachable state the wake-lock handle is present if
\* and only if the active-token set is non-empty.  Fails on a build whose target
\* is not macOS, where ensure_caffeinate_running spawns nothing.
C1_HandleIffActive == caffeinate_child <=> (active_tokens # {})

\* C1, amended: on a macOS build the wake-lock handle is present if and only if
\* the active-token set is non-empty, in every state reachable by perf_begin,
\* perf_end and the teardown; on any other build no handle is ever present.
C1_HandleIffActiveOnMacos ==
    IF macos THEN caffeinate_child <=> (active_tokens # {})
             ELSE ~caffeinate_child

\* Two sessions live on macOS, the wake-lock held.
C1_Witness ==
    /\ macos
    /\ caffeinate_child
    /\ Cardinality(active_tokens) = 2
    /\ Len(hist) >= 3

\* C2 as stated: two perf_begin calls (each starting a session, none active
\* before) followed by one perf_end for each returned token leave the wake-lock
\* active after the first perf_end and inactive, with an empty active set,
\* after the second, whichever token is ended first.
C2_TwoBeginsTwoEnds ==
    \A i \in 1..Len(hist) :
        TwoBegins(i) =>
            /\ EndsOneOf(i, i + 2) => PostChild(i + 2)
            /\ EndsEach(i, i + 2) =>
                   ~PostChild(i + 3) /\ PostActive(i + 3) = {}

\* C2, amended: on a macOS build, with no other session active, two perf_begin
\* calls that both start a session and return two different tokens, followed by
\* one perf_end for each, leave the wake-lock active after the first perf_end
\* and inactive, with an empty active set, after the second, whichever token is
\* ended first.  (The tokens differ until next_token has saturated.)
C2_TwoBeginsTwoEndsOnMacos ==
    \A i \in 1..Len(hist) :
        (macos /\ TwoBegins(i) /\ hist[i].ret.token # hist[i + 1].ret.token) =>
            /\ EndsOneOf(i, i + 2) =>
                   PostChild(i + 2) /\ Cardinality(PostActive(i + 2)) = 1
            /\ EndsEach(i, i + 2) =>
                   ~PostChild(i + 3) /\ PostActive(i + 3) = {}

\* Both sessions were begun and ended, the later token first.
C2_Witness ==
    /\ macos
    /\ Len(hist) = 4
    /\ TwoBegins(1)
    /\ EndsEach(1, 3)
    /\ hist[3].arg = hist[2].ret.token
    /\ hist[3].arg # hist[4].arg
    /\ hist[1].spawn = "ok"

\* C3: with no other session active, perf_begin followed immediately by
\* perf_end with the token perf_begin returned leaves no active token and no
\* wake-lock handle, and perf_end reports exactly that.
C3_BeginThenEnd ==
    \A i \in 1..Len(hist) :
        ( /\ i + 1 <= Len(hist)
          /\ hist[i].op = "perf_begin"
          /\ hist[i].pre.active_tokens = {}
          /\ hist[i + 1].op = "perf_end"
          /\ hist[i + 1].arg = hist[i].ret.token ) =>
            /\ PostActive(i + 1) = {}
            /\ ~PostChild(i + 1)
            /\ hist[i + 1].ret.active_tokens = 0
            /\ ~hist[i + 1].ret.active
            /\ ~hist[i + 1].ret.caffeinate_active

\* perf_begin started the wake-lock and the perf_end that followed released it.
C3_Witness ==
    /\ Len(hist) = 2
    /\ hist[1].op = "perf_begin"
    /\ hist[1].pre.active_tokens = {}
    /\ hist[1].ret.caffeinate_active
    /\ hist[2].op = "perf_end"
    /\ hist[2].arg = hist[1].ret.token
    /\ hist[2].ret.message = "perf session ended"

\* C4: perf_end with a token that is not in the active set (the lock acquired)
\* leaves the active set and the wake-lock handle as they were, returns active
\* and activeTokens of that unchanged set and the 'token not found' message.
C4_UnknownToken ==
    \A i \in 1..Len(hist) :
        ( /\ hist[i].op = "perf_end"
          /\ ~hist[i].pre.poisoned
          /\ hist[i].arg \notin hist[i].pre.active_tokens ) =>
            /\ PostActive(i) = hist[i].pre.active_tokens
            /\ PostChild(i) = hist[i].pre.caffeinate_child
            /\ PostNextToken(i) = hist[i].pre.next_token
            /\ hist[i].ret.token = hist[i].arg
            /\ hist[i].ret.active = (hist[i].pre.active_tokens # {})
            /\ hist[i].ret.active_tokens = Cardinality(hist[i].pre.active_tokens)
            /\ hist[i].ret.caffeinate_active = hist[i].pre.caffeinate_child
            /\ hist[i].ret.message = "perf session token not found"

\* A token that was ended is ended again while another session is live, and a
\* never-issued token is ended with no session live.
C4_Witness ==
    /\ Len(hist) = 4
    /\ hist[3].op = "perf_end"
    /\ hist[4].op = "perf_end"
    /\ hist[4].arg = hist[3].arg
    /\ hist[3].arg \in hist[3].pre.active_tokens
    /\ hist[4].ret.active
    /\ hist[4].ret.caffeinate_active

\* C5: when perf_begin fails to spawn the wake-lock process, the token it just
\* allocated is removed again, so the active set is the set before the call, no
\* wake-lock handle is stored, and the payload has active = false, token 0 and
\* the failure message.
C5_SpawnFailure ==
    \A i \in 1..Len(hist) :
        hist[i].spawn = "failed" =>
            /\ hist[i].op = "perf_begin"
            /\ PostActive(i) = hist[i].pre.active_tokens
            /\ hist[i].pre.next_token \notin PostActive(i)
            /\ ~PostChild(i)
            /\ ~hist[i].ret.active
            /\ hist[i].ret.token = 0
            /\ hist[i].ret.active_tokens = Cardinality(hist[i].pre.active_tokens)
            /\ ~hist[i].ret.caffeinate_active
            /\ hist[i].ret.message = "perf begin failed: failed to spawn caffeinate"

\* A spawn failed, and the next perf_begin spawned the wake-lock.
C5_Witness ==
    /\ Len(hist) = 2
    /\ hist[1].spawn = "failed"
    /\ hist[2].spawn = "ok"
    /\ hist[2].ret.token = 2

\* C6: with the perf lock poisoned, perf_begin and perf_end return a payload
\* with activeTokens = 0, caffeinateActive = false, active = false and the
\* message 'perf lock poisoned', and leave the token counter, the active set and
\* the wake-lock handle as they were.
C6_PoisonedLock ==
    \A i \in 1..Len(hist) :
        hist[i].pre.poisoned =>
            /\ hist[i].ret.active_tokens = 0
            /\ ~hist[i].ret.caffeinate_active
            /\ ~hist[i].ret.active
            /\ hist[i].ret.message = "perf lock poisoned"
            /\ hist[i].ret.token = hist[i].arg
            /\ hist[i].spawn = "none"
            /\ PostActive(i) = hist[i].pre.active_tokens
            /\ PostChild(i) = hist[i].pre.caffeinate_child
            /\ PostNextToken(i) = hist[i].pre.next_token

\* perf_end of a live token was turned away by the poisoned lock while the
\* wake-lock was held.
C6_Witness ==
    /\ Len(hist) = 1
    /\ hist[1].pre.poisoned
    /\ hist[1].op = "perf_end"
    /\ hist[1].arg \in active_tokens
    /\ caffeinate_child

\* C7: at most one wake-lock process exists and it is the one the handle names;
\* a step spawns one only when no handle is held; and a step that starts with a
\* handle held releases it exactly when it leaves the active set empty.
C7_OneWakeLock ==
    /\ [](caffeinate_procs <= 1 /\ (caffeinate_child <=> caffeinate_procs = 1))
    /\ [][ /\ caffeinate_procs' > caffeinate_procs => ~caffeinate_child
           /\ caffeinate_child => (~caffeinate_child' <=> active_tokens' = {})
         ]_vars

\* The wake-lock was spawned by the first of two sessions and stopped by the
\* perf_end that emptied the set.
C7_Witness ==
    /\ Len(hist) = 4
    /\ hist[1].spawn = "ok"
    /\ hist[2].op = "perf_begin" /\ hist[2].spawn = "none" /\ hist[2].ret.active
    /\ hist[4].op = "perf_end"
    /\ hist[4].pre.caffeinate_child
    /\ ~caffeinate_child
    /\ caffeinate_procs = 0

----------------------------------------------------------------------------
(* The startup and readiness claims, under SpecBoot and SpecBootFair. *)

TimeoutMs == STARTUP_READY_TIMEOUT_SEC * 1000

IsTerminal(ev) == ev.event \in {"backend-ready", "backend-failed"}

\* C8: once the readiness task has been started it completes, on completion
\* exactly one terminal event (backend-ready or backend-failed) has been
\* emitted, and from then on it sends no /ready request, starts no sleep and
\* emits nothing.
C8_ProbeCompletesOnce ==
    /\ (probe_pc = "start") ~> (probe_pc = "done")
    /\ [](app_runtime = "spawned" =>
              /\ Len(events) = IF probe_pc = "done" THEN 1 ELSE 0
              /\ \A k \in 1..Len(events) : IsTerminal(events[k]))
    /\ [][probe_pc = "done" => UNCHANGED <<probe_pc, requests, sleeps,
                                           events>>]_vars

\* The task completed after several attempts and the UI has its one event.
C8_Witness ==
    /\ probe_pc = "done"
    /\ requests >= 3
    /\ Len(events) = 1
    /\ events[1].event = "backend-ready"

\* C9 as stated: backend-ready is emitted only after a /ready attempt returned
\* 2xx, and the task's backend-failed only after the time since the first
\* attempt exceeded the overall timeout.  Fails when the HTTP client cannot be
\* built: backend-failed is then emitted before any attempt.
C9_NoEarlyTerminal ==
    app_runtime = "spawned" =>
        \A k \in 1..Len(events) :
            /\ events[k].event = "backend-ready" => got_success
            /\ events[k].event = "backend-failed" => elapsed > TimeoutMs

\* C9, amended: backend-ready is emitted only after a /ready attempt returned
\* 2xx (another status or a transport error never produces it), and the task's
\* backend-failed only after the time since the first attempt exceeded the
\* overall timeout, or at once, before any attempt, when the HTTP client could
\* not be built.
C9_NoEarlyTerminalButClient ==
    app_runtime = "spawned" =>
        \A k \in 1..Len(events) :
            /\ events[k].event = "backend-ready" =>
                   got_success /\ events[k].ready /\ requests >= 1
            /\ events[k].event = "backend-failed" =>
                   \/ /\ elapsed > TimeoutMs
                      /\ ~got_success
                      /\ events[k].error = "backend readiness timeout after 60s"
                   \/ /\ requests = 0
                      /\ events[k].error = "build readiness http client failed"

\* The task gave up after the timeout, no attempt having returned 2xx.
C9_Witness ==
    /\ probe_pc = "done"
    /\ Len(events) = 1
    /\ events[1].event = "backend-failed"
    /\ elapsed > TimeoutMs
    /\ requests >= 30

\* A step of startup failed: one of the calls every build makes (port bind,
\* data directory, sidecar location, which in a debug build is the resolution
\* of the workspace root, process spawn), or spawn_backend returned Err.
StartupFailed ==
    \/ startup_failure \in StartupFailures \ {"workspace_root"}
    \/ app_runtime = "fallback"

\* C10: when a step of backend startup fails, setup still completes and the
\* empty AppRuntime is managed: get_runtime_config returns an empty base URL
\* and an empty token, no process handle is stored and no backend process
\* runs, exactly one backend-failed event with ready = false and a non-empty
\* error has been emitted, and the readiness task is never started.
C10_StartupFailure ==
    StartupFailed =>
        /\ app_runtime = "fallback"
        /\ RuntimeConfig = [backendBaseUrl |-> "", authToken |-> ""]
        /\ config_rets \subseteq {[backendBaseUrl |-> "", authToken |-> ""]}
        /\ ~child
        /\ backend_procs = 0
        /\ Len(events) = 1
        /\ events[1].event = "backend-failed"
        /\ ~events[1].ready
        /\ events[1].error # ""
        /\ probe_pc = "idle"
        /\ requests = 0

\* The sidecar was not found, and the UI asked for the runtime config.
C10_Witness ==
    /\ StartupFailed
    /\ startup_failure = "sidecar"
    /\ config_rets # {}
    /\ events[1].error = "backend sidecar not found; checked: <candidates>"

\* The first /ready poll came back with a 2xx status.
FirstPollReady == requests = 1 /\ got_success

\* C11: when the backend answers the first /ready poll with a 2xx status,
\* exactly one backend-ready event with ready = true is emitted, no
\* backend-failed event is ever emitted, and no backoff sleep or second poll
\* takes place.
C11_FirstPollReady ==
    /\ [](FirstPollReady =>
              /\ probe_pc = "done"
              /\ events = <<Event("backend-ready", TRUE, "")>>
              /\ sleeps = <<>>)
    /\ [][FirstPollReady => UNCHANGED <<probe_pc, events, sleeps, requests>>]_vars

\* The first poll was answered at once with 2xx and the task is over.
C11_Witness ==
    /\ FirstPollReady
    /\ probe_pc = "done"
    /\ elapsed = FastResponseMs
    /\ Len(events) = 1

\* C15: the sleeps between successive readiness attempts are exactly 150ms,
\* 300ms, 600ms, 1200ms and then 2000ms for every later sleep; no sleep ever
\* exceeds 2000ms.
C15_BackoffSequence ==
    /\ \A k \in 1..Len(sleeps) :
           /\ sleeps[k] = IF k <= 4 THEN <<150, 300, 600, 1200>>[k] ELSE 2000
           /\ sleeps[k] <= 2000
    /\ probe_pc = "sleep" => delay = sleeps[Len(sleeps)]
    /\ Len(sleeps) = IF probe_pc = "sleep" THEN requests
                     ELSE IF requests = 0 THEN 0 ELSE requests - 1

\* The task is in its seventh sleep: the cap has been reached and repeated.
C15_Witness ==
    /\ probe_pc = "sleep"
    /\ Len(sleeps) = 7
    /\ delay = 2000

TimeoutFailure ==
    Event("backend-failed", FALSE,
          "backend readiness timeout after " \o Display(STARTUP_READY_TIMEOUT_SEC) \o "s")

\* C16 as stated: whenever the time since the first readiness attempt exceeds
\* the overall timeout, the polling loop ends with a timeout failure
\* (backend-failed), also when the attempt in flight as the timeout passes
\* comes back with a 2xx status.  Fails for that very attempt: the status is
\* tested before the elapsed time, so a late 2xx still ends the loop with Ok.
C16_TimeoutAlwaysFails ==
    (probe_pc = "done" /\ requests >= 1 /\ elapsed > TimeoutMs) =>
        events = <<TimeoutFailure>>

\* C16, amended: once the time since the first readiness attempt exceeds the
\* overall timeout, the polling loop ends with the response of the attempt in
\* flight or sent next, without starting another sleep: with a timeout failure
\* (backend-failed) when that response is not a 2xx status, and with success
\* (backend-ready) when it is.
C16_TimeoutEndsLoop ==
    /\ (elapsed > TimeoutMs) ~> (probe_pc = "done")
    /\ [](elapsed > TimeoutMs =>
              /\ probe_pc \in {"request", "done"}
              /\ probe_pc = "done" =>
                     events = IF got_success
                              THEN <<Event("backend-ready", TRUE, "")>>
                              ELSE <<TimeoutFailure>>)
    /\ [][(elapsed > TimeoutMs /\ probe_pc = "request") =>
              /\ probe_pc' \in {"request", "done"}
              /\ sleeps' = sleeps
              /\ requests' = requests]_vars

\* A 2xx response arrived after the timeout had passed: the loop ended, with
\* backend-ready.
C16_Witness ==
    /\ probe_pc = "done"
    /\ elapsed > TimeoutMs
    /\ got_success
    /\ events = <<Event("backend-ready", TRUE, "")>>

----------------------------------------------------------------------------
(* The token counter and the teardown, under Spec. *)

\* Call i is a perf_begin that started a session.
BeginOk(i) == hist[i].op = "perf_begin" /\ hist[i].ret.active

\* C17 as stated: every successful perf_begin returns a token strictly greater
\* than every token returned before it, over the whole range of the counter,
\* its maximum value included.  Fails at the maximum: saturating_add leaves the
\* counter there, and the next perf_begin returns the same token again.
C17_StrictlyIncreasing ==
    \A i, j \in 1..Len(hist) :
        (i < j /\ BeginOk(i) /\ BeginOk(j)) =>
            hist[i].ret.token < hist[j].ret.token

\* C17, amended: every successful perf_begin returns the counter's value, which
\* is never smaller than a token returned before it and is strictly greater as
\* long as the counter has not reached its maximum value; once the counter is at
\* the maximum of its 64-bit range it stays there, so every later perf_begin
\* returns that maximum again and the sessions begun there share one token.
C17_IncreasingUntilMax ==
    /\ \A i \in 1..Len(hist) :
           BeginOk(i) =>
               /\ hist[i].ret.token = hist[i].pre.next_token
               /\ hist[i].ret.token >= 1
               /\ PostNextToken(i) = IF hist[i].ret.token = MaxToken
                                      THEN MaxToken
                                      ELSE hist[i].ret.token + 1
    /\ \A i, j \in 1..Len(hist) :
           (i < j /\ BeginOk(i) /\ BeginOk(j)) =>
               /\ hist[i].ret.token <= hist[j].ret.token
               /\ hist[i].ret.token = hist[j].ret.token =>
                      hist[j].ret.token = MaxToken
    /\ \A t \in active_tokens : t < next_token \/ t = MaxToken

\* Four sessions begun in a row: the tokens grow up to the maximum, which is
\* then returned a second time.
C17_Witness ==
    /\ Len(hist) = 4
    /\ \A i \in 1..4 : BeginOk(i)
    /\ hist[1].ret.token < hist[2].ret.token
    /\ hist[2].ret.token < hist[3].ret.token
    /\ hist[3].ret.token = MaxToken
    /\ hist[4].ret.token = MaxToken

\* C12: on application exit with neither lock poisoned, the teardown kills the
\* backend process if its handle is still present and leaves the handle empty,
\* clears every active perf-session token and releases the wake-lock process:
\* right after it the backend handle is absent, the active-token set is empty
\* and no wake-lock handle is held.  A teardown run once more changes nothing
\* and kills nothing.
C12_Teardown ==
    [][(exit /\ ~perf_poisoned /\ ~child_poisoned) =>
           /\ ~child'
           /\ backend_procs' = IF child THEN backend_procs - 1 ELSE backend_procs
           /\ backend_procs' = 0
           /\ active_tokens' = {}
           /\ ~caffeinate_child'
           /\ caffeinate_procs' = 0
           /\ next_token' = next_token
           /\ (~child /\ active_tokens = {} /\ ~caffeinate_child) =>
                  UNCHANGED <<auxVars, macos, next_token, active_tokens,
                              caffeinate_child, perf_poisoned,
                              caffeinate_procs, bootVars>>]_vars

\* The state right after a teardown on macOS, which came after the backend had
\* been spawned and sessions begun: the handle is gone, the backend is dead, no
\* token and no wake-lock process is left.
C12_Witness ==
    /\ macos
    /\ app_runtime = "spawned"
    /\ ~perf_poisoned /\ ~child_poisoned
    /\ hist = <<>>
    /\ next_token = MaxToken
    /\ ~child
    /\ backend_procs = 0
    /\ active_tokens = {}
    /\ ~caffeinate_child
    /\ caffeinate_procs = 0

----------------------------------------------------------------------------
(* infer_thermal_level, under SpecThermal. *)

\* The values an Option holds: none or one.
Present(opt) == {opt[i] : i \in 1..Len(opt)}

\* The text has the phrase at some position, whatever the case of its letters.
SaysNoThermalWarning(text) ==
    \E i \in 1..Len(text) :
        \A k \in 1..Len(NoThermalWarning) :
            /\ i + k - 1 <= Len(text)
            /\ to_lowercase_char(text[i + k - 1]) = NoThermalWarning[k]

\* C13: infer_thermal_level equals the priority-ordered reference for every
\* combination of inputs: a present raw thermal level decides alone (>= 3
\* critical, 2 serious, 1 fair, anything else nominal) whatever the limits are;
\* otherwise the minimum of the present limit percentages decides (<= 50
\* critical, <= 75 serious, <= 90 fair, else nominal); otherwise the text
\* "no thermal warning", in any case of letters, gives nominal; otherwise
\* unknown.
C13_ThermalLevel ==
    pure_ret # <<>> =>
        LET raw    == Present(pure_args.thermal_level_raw)
            limits == Present(pure_args.cpu_speed_limit)
                      \cup Present(pure_args.scheduler_limit)
            level  == pure_ret[1]
        IN  /\ \A x \in raw :
                   level = CASE x >= 3 -> "critical"
                             [] x = 2  -> "serious"
                             [] x = 1  -> "fair"
                             [] OTHER  -> "nominal"
            /\ (raw = {} /\ limits # {}) =>
                   \E m \in limits :
                       /\ \A y \in limits : m <= y
                       /\ level = CASE m <= 50 -> "critical"
                                    [] m > 50 /\ m <= 75 -> "serious"
                                    [] m > 75 /\ m <= 90 -> "fair"
                                    [] OTHER -> "nominal"
            /\ (raw = {} /\ limits = {}) =>
                   level = IF SaysNoThermalWarning(pure_args.therm_output)
                           THEN "nominal" ELSE "unknown"

\* Raw level 3 with both limits at 100 percent: critical all the same.
C13_Witness ==
    /\ pure_ret = <<"critical">>
    /\ pure_args.thermal_level_raw = <<3>>
    /\ pure_args.cpu_speed_limit = <<100>>
    /\ pure_args.scheduler_limit = <<100>>

----------------------------------------------------------------------------
(* find_sidecar_path, under SpecSidecar. *)

\* The override variable is set and its value is not blank.
OverrideGiven ==
    /\ pure_args.override # <<>>
    /\ \E i \in 1..Len(pure_args.override[1]) :
           pure_args.override[1][i] \notin Whitespace

EndsWith(s, suffix) ==
    /\ Len(s) >= Len(suffix)
    /\ SubSeq(s, Len(s) - Len(suffix) + 1, Len(s)) = suffix

StartsWith(s, prefix) ==
    /\ Len(s) >= Len(prefix)
    /\ SubSeq(s, 1, Len(prefix)) = prefix

\* Packaged mode: the first existing candidate in the order [next to the
\* executable, resource dir's binaries subfolder, resource dir], else an error
\* that lists every candidate checked.
PackagedResult(r) ==
    LET c == candidates(pure_args)
    IN  /\ (pure_args.current_exe # <<>> /\ pure_args.resource_dir # <<>>) =>
               /\ Len(c) = 3
               /\ StartsWith(c[1], SubSeq(pure_args.current_exe[1], 1, 8))
               /\ StartsWith(c[2], pure_args.resource_dir[1])
               /\ contains(c[2], BINARIES_DIR)
               /\ StartsWith(c[3], pure_args.resource_dir[1])
               /\ ~contains(c[3], BINARIES_DIR)
        /\ \A i \in 1..Len(c) : EndsWith(c[i], binary_name(pure_args.windows))
        /\ IF \E i \in 1..Len(c) : c[i] \in pure_args.existing
           THEN /\ r.ok
                /\ r.args = <<>>
                /\ \E i \in 1..Len(c) :
                       /\ r.path = c[i]
                       /\ c[i] \in pure_args.existing
                       /\ \A j \in 1..(i - 1) : c[j] \notin pure_args.existing
           ELSE /\ ~r.ok
                /\ StartsWith(r.error, NOT_FOUND_PREFIX)
                /\ \A i \in 1..Len(c) : contains(r.error, c[i])

\* C19 as stated: a non-blank override variable wins over everything (path as
\* given, empty arguments); otherwise development mode yields the interpreter
\* with the backend script; otherwise packaged mode returns the first existing
\* candidate or fails listing every candidate.  Fails for an override with
\* blanks around the path, which is returned trimmed, and in development mode
\* when the current directory cannot be read, which is an error.
C19_PriorityOrder ==
    pure_ret # <<>> =>
        LET r == pure_ret[1]
        IN  IF OverrideGiven
            THEN r = SidecarOk(pure_args.override[1], <<>>)
            ELSE IF pure_args.debug
            THEN /\ r.ok
                 /\ r.path = PYTHON
                 /\ Len(r.args) = 1
                 /\ EndsWith(r.args[1], BACKEND_SCRIPT)
            ELSE PackagedResult(r)

\* C19, amended: a non-blank override variable wins over everything (its value
\* with the white space around it trimmed, empty arguments); otherwise
\* development mode yields the interpreter with the backend script under the
\* workspace root, or fails with "resolve current dir failed" when the current
\* directory cannot be read; otherwise packaged mode returns the first existing
\* candidate in the order [next to the executable, resource dir's binaries
\* subfolder, resource dir], a candidate being checked only when its directory
\* could be resolved, and if none exists it fails with an error that lists
\* every candidate checked.
C19_PriorityOrderTrimmed ==
    pure_ret # <<>> =>
        LET r == pure_ret[1]
            o == pure_args.override[1]
        IN  IF OverrideGiven
            THEN /\ r.ok
                 /\ r.args = <<>>
                 /\ \E i, j \in 1..Len(o) :
                        /\ r.path = SubSeq(o, i, j)
                        /\ o[i] \notin Whitespace
                        /\ o[j] \notin Whitespace
                        /\ \A k \in 1..Len(o) :
                               (k < i \/ k > j) => o[k] \in Whitespace
            ELSE IF pure_args.debug
            THEN IF pure_args.current_dir = <<>>
                 THEN r = SidecarErr(CURRENT_DIR_FAILED)
                 ELSE /\ r.ok
                      /\ r.path = PYTHON
                      /\ Len(r.args) = 1
                      /\ EndsWith(r.args[1], BACKEND_SCRIPT)
                      /\ \E root \in {pure_args.current_dir[1]} \cup
                                      Present(parent(pure_args.windows,
                                                     pure_args.current_dir[1])) :
                             /\ StartsWith(r.args[1], root)
                             /\ Len(r.args[1]) <= Len(root) + 1 + Len(BACKEND_DIR)
                                                  + 1 + Len(BACKEND_SCRIPT)
                             /\ contains(r.args[1], BACKEND_DIR)
                             /\ root # pure_args.current_dir[1] =>
                                    join(pure_args.windows, root, BACKEND_DIR)
                                        \in pure_args.existing
            ELSE PackagedResult(r)

\* Packaged mode, no override: the binary is missing next to the executable
\* and present in both resource places; the binaries subfolder wins.
C19_Witness ==
    /\ pure_ret # <<>>
    /\ ~OverrideGiven
    /\ ~pure_args.debug
    /\ Len(candidates(pure_args)) = 3
    /\ candidates(pure_args)[1] \notin pure_args.existing
    /\ candidates(pure_args)[2] \in pure_args.existing
    /\ candidates(pure_args)[3] \in pure_args.existing
    /\ pure_ret[1] = SidecarOk(candidates(pure_args)[2], <<>>)

----------------------------------------------------------------------------
(* extract_int_from_key, under SpecExtract. *)

HasKey(line, key) == contains(to_lowercase(line), to_lowercase(key))

DigitPositions(line) == {i \in 1..Len(line) : is_ascii_digit(line[i])}

FirstDigit(line) ==
    CHOOSE i \in DigitPositions(line) : \A j \in DigitPositions(line) : i <= j

\* The first contiguous run of digits of a line that has a digit.
FirstRun(line) ==
    LET p == FirstDigit(line)
        q == CHOOSE k \in p..Len(line) :
                 /\ \A j \in p..k : is_ascii_digit(line[j])
                 /\ k = Len(line) \/ ~is_ascii_digit(line[k + 1])
    IN  SubSeq(line, p, q)

\* A minus sign stands right before the first digit.
MinusLeads(line) ==
    LET p == FirstDigit(line)
    IN  /\ p > 1
        /\ line[p - 1] = "-"

RECURSIVE StripZeros(_)
StripZeros(run) ==
    IF run # <<>> /\ Head(run) = "0" THEN StripZeros(Tail(run)) ELSE run

\* The value of at most nine decimal digits.
RECURSIVE Decimal(_)
Decimal(run) ==
    IF run = <<>> THEN 0
    ELSE Decimal(SubSeq(run, 1, Len(run) - 1)) * 10 + digit_value(run[Len(run)])

\* The run read as a 32-bit signed integer: <<value>>, or <<>> when the value
\* is outside -2147483648..2147483647.
Signed(digits, negative) ==
    LET run == StripZeros(digits)
        hi  == Decimal(SubSeq(run, 1, 9))
        lo  == digit_value(run[10])
    IN  IF Len(run) <= 9
        THEN <<IF negative THEN 0 - Decimal(run) ELSE Decimal(run)>>
        ELSE IF Len(run) = 10 /\ negative
                /\ (hi < 214748364 \/ (hi = 214748364 /\ lo <= 8))
        THEN <<0 - hi * 10 - lo>>
        ELSE IF Len(run) = 10 /\ ~negative
                /\ (hi < 214748364 \/ (hi = 214748364 /\ lo <= 7))
        THEN <<hi * 10 + lo>>
        ELSE <<>>

\* What the claim describes: the number of the first line that contains the
\* key and yields a parsable number, negated when a minus sign immediately
\* leads its first run of digits; None when there is no such line.
Extracted(output, key) ==
    LET ls == lines(output)
        yielding == {i \in 1..Len(ls) :
                        /\ HasKey(ls[i], key)
                        /\ DigitPositions(ls[i]) # {}
                        /\ Signed(FirstRun(ls[i]), MinusLeads(ls[i])) # <<>>}
        first == CHOOSE i \in yielding : \A j \in yielding : i <= j
    IN  IF yielding = {} THEN <<>>
        ELSE Signed(FirstRun(ls[first]), MinusLeads(ls[first]))

\* C20: extract_int_from_key returns, for the first line whose lowercase form
\* contains the lowercased key and that yields a parsable number, the first
\* contiguous run of digits of that line, negated only when a single minus
\* sign immediately leads that run, and nothing when no line contains the key.
\* The code departs from it on "x-y CPU_Speed_Limit 45": the minus sign is kept
\* across the characters between it and the run, and -45 is returned.
C20_MinusLeadsRun ==
    pure_ret # <<>> =>
        pure_ret[1] = Extracted(pure_args.output, pure_args.key)

----------------------------------------------------------------------------
(* The runtime config over the whole lifetime, under SpecLife. *)

\* C14: get_runtime_config returns the same (base URL, token) pair on every
\* call for the whole application lifetime: the pair fixed at startup is never
\* changed by the readiness outcome (ready or timeout), by perf_begin or
\* perf_end, by snapshot queries or by the exit teardown, and it is empty
\* exactly when backend startup failed.
C14_ConfigFixed ==
    /\ [](/\ Cardinality(config_rets) <= 1
          /\ config_rets \subseteq
                 {[backendBaseUrl |-> backend_base_url, authToken |-> auth_token]})
    /\ [][app_runtime # "none" => UNCHANGED <<backend_base_url, auth_token>>]_vars
    /\ [](app_runtime # "none" =>
              /\ (backend_base_url = "") <=> StartupFailed
              /\ (auth_token = "") <=> StartupFailed)

\* The backend was spawned and never became ready; sessions were begun, a
\* snapshot was taken, the teardown has run, and the UI has been given the
\* pair that setup fixed.
C14_Witness ==
    /\ app_runtime = "spawned"
    /\ probe_pc = "done"
    /\ elapsed > TimeoutMs
    /\ ~got_success
    /\ ~child
    /\ next_token > 1
    /\ runtime_state # <<>>
    /\ config_rets = {[backendBaseUrl |-> backend_base_url, authToken |-> auth_token]}
    /\ auth_token # ""

----------------------------------------------------------------------------
(* The two Mutexes, under SpecLocksFair. *)

\* Thread t is blocked in a lock() call.
Blocked(t) ==
    threads[t].pc \in {"perf_begin.lock", "perf_end.lock",
                       "macos_runtime_state.lock", "exit.child_lock",
                       "exit.perf_lock"}

Holds(t, lock) == lock_owner[lock] = t

\* C18: no operation (perf_begin, perf_end, macos_runtime_state,
\* get_runtime_config, exit teardown) ever holds the backend-handle lock and the
\* perf lock at the same time; so no thread waits for a lock while it holds
\* one, which is what a lock-ordering deadlock needs, and every lock that is
\* acquired is eventually released: each lock is free again and again.
C18_OneLockAtATime ==
    /\ [](\A t \in Threads : ~(Holds(t, "child") /\ Holds(t, "perf")))
    /\ [](\A t \in Threads :
              (Holds(t, "child") \/ Holds(t, "perf")) => ~Blocked(t))
    /\ \A lock \in {"child", "perf"} : []<>(lock_owner[lock] = "free")

\* The teardown holds the perf lock, having dropped the handle lock, while two
\* commands wait for the perf lock.
C18_Witness ==
    /\ Holds("main", "perf")
    /\ lock_owner.child = "free"
    /\ threads["ui1"].pc = "perf_begin.lock"
    /\ threads["ui2"].pc = "macos_runtime_state.lock"
    /\ active_tokens # {}
    /\ ~child

----------------------------------------------------------------------------
(* The snapshot query, under SpecSnapshot. *)

\* C21: macos_runtime_state never changes the perf session state (token
\* counter, active set, wake-lock handle); the payload it returns has
\* perfActiveTokens equal to the current size of the active set and
\* caffeinateActive equal to whether a wake-lock handle is held; when the perf
\* lock is poisoned it still returns a payload, with perfActiveTokens = 0 and
\* caffeinateActive = false.
C21_SnapshotReadsOnly ==
    [][macos_runtime_state =>
           /\ UNCHANGED <<next_token, active_tokens, caffeinate_child,
                          caffeinate_procs, perf_poisoned>>
           /\ Len(runtime_state') = 1
           /\ runtime_state'[1].perfActiveTokens =
                  (IF perf_poisoned THEN 0 ELSE Cardinality(active_tokens))
           /\ runtime_state'[1].caffeinateActive =
                  (IF perf_poisoned THEN FALSE ELSE caffeinate_child)]_vars

\* A snapshot was returned while two sessions were open and the wake lock was
\* held, and both are still so.
C21_Witness ==
    /\ runtime_state # <<>>
    /\ runtime_state[1].perfActiveTokens = 2
    /\ runtime_state[1].caffeinateActive
    /\ Cardinality(active_tokens) = 2
    /\ caffeinate_child
    /\ ~perf_poisoned

====
